---- MODULE Spec2Model ----
(***************************************************************************)
(* Density-matrix simulator core of mindquantum: the runtime gate builder  *)
(* rt::Gate, the Z-like kernels on the packed lower triangle, the          *)
(* measurement projector, the ownership of the rho buffer by state         *)
(* objects, and the expectation-and-gradient routines.                     *)
(*                                                                         *)
(* Each part of the program is a state machine of its own (SpecGate,       *)
(* SpecZ, SpecMeas, SpecOwn, SpecGrad, SpecBatch); the variables of the    *)
(* other parts stay at their initial value.                                *)
(***************************************************************************)
EXTENDS Integers, Sequences, FiniteSets, TLC

VARIABLES
    \* rt::Gate (src/unnamed/part_000)
    gate, objs, ctrls, gThrew, gLast,
    \* Z-like kernels on the packed lower triangle
    \* (src/ccsrc/lib/simulator/densitymatrix/detail/cpu_densitymatrix_policy_zlike.cpp)
    zN, zQs, zPrev, zPrev2, zOp, zOp2, zBad, zPhase,
    \* DensityMatrixState::ApplyMeasure
    mN, mQs, mLast, mPrev,
    \* DensityMatrixState objects and the rho buffers they own
    sim, heap, oLast, oBadFree,
    \* the expectation-and-gradient routines, called on one thread
    gIn, gCall, gRet,
    \* a MultiMulti call: the caller, its worker threads and the output array
    bIn, bPc, bI, bEnd, tasks, output, bJoined,
    \* the chunk loop of the OneMulti routines
    cIn, cPc, cNt, cI, cChunks,
    \* ApplyGate and ApplyChannel as dispatchers
    dGate, dCall, dRet, dLog,
    \* ApplyCircuit and Sampling
    sSim, sCirc, sCall, sLast,
    \* the buffers a gradient routine or Sampling touches
    fThis, fHeap, fW, fCall

gateVars == <<gate, objs, ctrls, gThrew, gLast>>
zVars == <<zN, zQs, zPrev, zPrev2, zOp, zOp2, zBad, zPhase>>
measVars == <<mN, mQs, mLast, mPrev>>
ownVars == <<sim, heap, oLast, oBadFree>>
gradVars == <<gIn, gCall, gRet>>
batchVars == <<bIn, bPc, bI, bEnd, tasks, output, bJoined>>
chunkVars == <<cIn, cPc, cNt, cI, cChunks>>
dispVars == <<dGate, dCall, dRet, dLog>>
sampVars == <<sSim, sCirc, sCall, sLast>>
frameVars == <<fThis, fHeap, fW, fCall>>
vars == <<gateVars, zVars, measVars, ownVars, gradVars, batchVars, chunkVars, dispVars, sampVars, frameVars>>
notGateVars == <<zVars, measVars, ownVars, gradVars, batchVars, chunkVars, dispVars, sampVars, frameVars>>
notZVars == <<gateVars, measVars, ownVars, gradVars, batchVars, chunkVars, dispVars, sampVars, frameVars>>
notMeasVars == <<gateVars, zVars, ownVars, gradVars, batchVars, chunkVars, dispVars, sampVars, frameVars>>
notOwnVars == <<gateVars, zVars, measVars, gradVars, batchVars, chunkVars, dispVars, sampVars, frameVars>>
notGradVars == <<gateVars, zVars, measVars, ownVars, batchVars, chunkVars, dispVars, sampVars, frameVars>>
notBatchVars == <<gateVars, zVars, measVars, ownVars, gCall, gRet, chunkVars, dispVars, sampVars, frameVars>>
notChunkVars == <<gateVars, zVars, measVars, ownVars, gradVars, batchVars, dispVars, sampVars, frameVars>>
notDispVars == <<gateVars, zVars, measVars, ownVars, gradVars, batchVars, chunkVars, sampVars, frameVars>>
notSampVars == <<gateVars, zVars, measVars, ownVars, gradVars, batchVars, chunkVars, dispVars, frameVars>>
notFrameVars == <<gateVars, zVars, measVars, ownVars, gradVars, batchVars, chunkVars, dispVars, sampVars>>

\* the elements of a sequence
Range(s) == {s[i] : i \in 1..Len(s)}

\* std::find(v.begin(), v.end(), x) != v.end()
Found(v, x) == \E i \in 1..Len(v) : v[i] = x

\* a sequence without a repeated element
NoRepeat(s) == \A i, j \in 1..Len(s) : i # j => s[i] # s[j]

(***************************************************************************)
(* rt::Gate: the runtime gate builder                                      *)
(***************************************************************************)
\* qubit indices a caller passes: 0 .. MaxQubitIdx
MaxQubitIdx == 2
QubitIdx == 0..MaxQubitIdx
GateIDs == {"null", "X", "RX"}

\* Gate() = default
GateIdle ==
    /\ gate = "null"
    /\ objs = <<>>
    /\ ctrls = <<>>
    /\ gThrew = FALSE
    /\ gLast = [op |-> "ctor", q |-> 0]

\* the caller sets the public field gate
SetGate(id) ==
    /\ gate' = id
    /\ gThrew' = FALSE
    /\ gLast' = [op |-> "SetGate", q |-> 0]
    /\ UNCHANGED <<objs, ctrls>>
    /\ UNCHANGED notGateVars

\* void Reset()
Reset ==
    /\ gate' = "null"
    /\ objs' = <<>>
    /\ ctrls' = <<>>
    /\ gThrew' = FALSE
    /\ gLast' = [op |-> "Reset", q |-> 0]
    /\ UNCHANGED notGateVars

\* the condition under which AddObj(obj) throws
AddObjThrows(os, cs, obj) == Found(os, obj)

\* void AddObj(Index obj)
AddObj(obj) ==
    /\ gLast' = [op |-> "AddObj", q |-> obj]
    /\ IF AddObjThrows(objs, ctrls, obj)
          THEN /\ gThrew' = TRUE
               /\ UNCHANGED <<gate, objs, ctrls>>
          ELSE /\ gThrew' = FALSE
               /\ objs' = Append(objs, obj)
               /\ UNCHANGED <<gate, ctrls>>
    /\ UNCHANGED notGateVars

\* the condition under which AddCtrl(ctrl) throws
AddCtrlThrows(os, cs, ctrl) == Found(os, ctrl) \/ Found(cs, ctrl)

\* void AddCtrl(Index ctrl)
AddCtrl(ctrl) ==
    /\ gLast' = [op |-> "AddCtrl", q |-> ctrl]
    /\ IF AddCtrlThrows(objs, ctrls, ctrl)
          THEN /\ gThrew' = TRUE
               /\ UNCHANGED <<gate, objs, ctrls>>
          ELSE /\ gThrew' = FALSE
               /\ ctrls' = Append(ctrls, ctrl)
               /\ UNCHANGED <<gate, objs>>
    /\ UNCHANGED notGateVars

GateNext ==
    \/ \E id \in GateIDs : SetGate(id)
    \/ Reset
    \/ \E q \in QubitIdx : AddObj(q)
    \/ \E q \in QubitIdx : AddCtrl(q)

(***************************************************************************)
(* Complex numbers.  The values of the Z-like gates are powers of          *)
(* zeta = exp(i*pi/4), so a complex number is kept exactly as an element   *)
(* a0 + a1*zeta + a2*zeta^2 + a3*zeta^3 of Z[zeta] (zeta^4 = -1,           *)
(* i = zeta^2); the entries of rho are stored scaled to integers.          *)
(***************************************************************************)
CZero == <<0, 0, 0, 0>>
COne == <<1, 0, 0, 0>>

\* a * b
CMul(a, b) ==
    << a[1]*b[1] - a[2]*b[4] - a[3]*b[3] - a[4]*b[2],
       a[1]*b[2] + a[2]*b[1] - a[3]*b[4] - a[4]*b[3],
       a[1]*b[3] + a[2]*b[2] + a[3]*b[1] - a[4]*b[4],
       a[1]*b[4] + a[2]*b[3] + a[3]*b[2] + a[4]*b[1] >>

\* std::conj
CConj(a) == <<a[1], -a[4], -a[3], -a[2]>>

\* std::norm: |a|^2
CNorm(a) == CMul(a, CConj(a))

\* zeta^k = cos(k*pi/4) + i*sin(k*pi/4)
Zeta(k) ==
    LET m == k % 8
        u == [j \in 1..4 |-> IF j = (m % 4) + 1 THEN 1 ELSE 0]
    IN  IF m < 4 THEN u ELSE [j \in 1..4 |-> -u[j]]

(***************************************************************************)
(* Index and mask utilities                                                *)
(***************************************************************************)
RECURSIVE Pow2(_)
Pow2(n) == IF n = 0 THEN 1 ELSE 2 * Pow2(n - 1)

\* bit q of x
Bit(x, q) == (x \div Pow2(q)) % 2

\* (x & ctrl_mask) == ctrl_mask, the mask being the OR of 1 << c over cs
InCtrl(x, cs) == \A c \in cs : Bit(x, c) = 1

\* r0 = ((k & obj_high_mask) << 1) + (k & obj_low_mask), obj_mask = 1 << q
Expand(k, q) == 2 * (k - (k % Pow2(q))) + (k % Pow2(q))

\* IdxMap(r, c): the offset of (r, c) in the packed lower triangle
IdxMap(r, c) == (r * (r + 1)) \div 2 + c

\* the row r of the stored entry at offset i: IdxMap(r, 0) <= i < IdxMap(r + 1, 0)
RECURSIVE RowFrom(_, _)
RowFrom(i, r) == IF IdxMap(r + 1, 0) > i THEN r ELSE RowFrom(i, r + 1)
PackedRow(i) == RowFrom(i, 0)

\* the number of stored entries for dimension dim
PackedLen(dim) == (dim * (dim + 1)) \div 2

(***************************************************************************)
(* A kernel works on [qs |-> the packed array, bad |-> the IdxMap calls    *)
(* (r, c) made so far with r < c].                                         *)
(***************************************************************************)
\* qs[IdxMap(r, c)] *= m
MulAt(st, r, c, m) ==
    [qs  |-> [st.qs EXCEPT ![IdxMap(r, c)] = CMul(@, m)],
     bad |-> IF r < c THEN st.bad \cup {<<r, c>>} ELSE st.bad]

\* qs[IdxMap(r, c)] = 0
ZeroAt(st, r, c) ==
    [qs  |-> [st.qs EXCEPT ![IdxMap(r, c)] = CZero],
     bad |-> IF r < c THEN st.bad \cup {<<r, c>>} ELSE st.bad]

\* SelfMultiply(qs, r, c, m): the logical entry (r, c) times m
SelfMultiply(st, r, c, m) ==
    IF r >= c THEN MulAt(st, r, c, m) ELSE MulAt(st, c, r, CConj(m))

(***************************************************************************)
(* The Z-like kernels.  One loop body per kernel; q is objs[0], cs the set *)
(* of control qubits, (k, l) the row and column base of the 2x2 block.     *)
(***************************************************************************)
\* ApplyZLike, no control qubits: the body of the column loop
ZLikeBody(st, q, val, k, l) ==
    LET r0 == Expand(k, q)
        r1 == r0 + Pow2(q)
        c0 == Expand(l, q)
        c1 == c0 + Pow2(q)
        s1 == MulAt(st, r1, c1, CNorm(val))
        s2 == MulAt(s1, r1, c0, val)
    IN  SelfMultiply(s2, r0, c1, CConj(val))

\* ApplyZLike, with control qubits: the body of the column loop
ZLikeCtrlBody(st, q, cs, val, k, l) ==
    LET r0 == Expand(k, q)
        r1 == r0 + Pow2(q)
        c0 == Expand(l, q)
        c1 == c0 + Pow2(q)
        both == SelfMultiply(MulAt(MulAt(st, r1, c1, CNorm(val)), r1, c0, val),
                             r0, c1, CConj(val))
        rowOnly == MulAt(MulAt(st, r1, c1, val), r1, c0, val)
        colOnly == SelfMultiply(MulAt(st, r1, c1, CConj(val)), r0, c1, CConj(val))
        s1 == IF InCtrl(r0, cs)
                 THEN (IF InCtrl(c0, cs) THEN both ELSE rowOnly)
                 ELSE colOnly
    IN  IF ~InCtrl(r0, cs) /\ ~InCtrl(c0, cs)
           THEN st
           ELSE IF InCtrl(r0, cs)
                   THEN MulAt(MulAt(s1, r1, r0, val), r1, r1, CNorm(val))
                   ELSE s1

\* ApplyPS with diff, no control qubits: the body of the column loop
PSDiffBody(st, q, k, l) ==
    LET r0 == Expand(k, q)
        r1 == r0 + Pow2(q)
        c0 == Expand(l, q)
        c1 == c0 + Pow2(q)
    IN  ZeroAt(ZeroAt(ZeroAt(st, r0, c0), r0, c1), r1, c0)

\* ApplyPS with diff, with control qubits: the body of the column loop
PSDiffCtrlBody(st, q, cs, e, k, l) ==
    LET r0 == Expand(k, q)
        r1 == r0 + Pow2(q)
        c0 == Expand(l, q)
        c1 == c0 + Pow2(q)
        both == ZeroAt(ZeroAt(ZeroAt(st, r0, c0), r0, c1), r1, c0)
        rowOnly == MulAt(MulAt(ZeroAt(ZeroAt(st, r0, c0), r0, c1), r1, c0, e), r1, c1, e)
        colOnly == MulAt(ZeroAt(MulAt(ZeroAt(st, r0, c0), r0, c1, CConj(e)), r1, c0),
                         r1, c1, CConj(e))
    IN  IF ~InCtrl(r0, cs) /\ ~InCtrl(c0, cs)
           THEN st
           ELSE IF InCtrl(r0, cs)
                   THEN (IF InCtrl(c0, cs) THEN both ELSE rowOnly)
                   ELSE colOnly

\* the loop body of kernel tag
KernelBody(tag, st, q, cs, val, k, l) ==
    CASE tag = "ZLike"     -> ZLikeBody(st, q, val, k, l)
      [] tag = "ZLikeCtrl" -> ZLikeCtrlBody(st, q, cs, val, k, l)
      [] tag = "PSDiff"    -> PSDiffBody(st, q, k, l)
      [] tag = "PSDiffCtrl" -> PSDiffCtrlBody(st, q, cs, val, k, l)

\* for (l = ...; l <= lmax; l++) body; s is the state the body leaves, and
\* one iteration is finished before the next begins
RECURSIVE ColLoop(_, _, _, _, _, _, _, _)
ColLoop(tag, st, q, cs, val, k, l, lmax) ==
    IF l > lmax
       THEN st
       ELSE CHOOSE y \in {ColLoop(tag, s, q, cs, val, k, l + 1, lmax) :
                           s \in {KernelBody(tag, st, q, cs, val, k, l)}} : TRUE

\* for (k = ...; k < dim / 2; k++) for (l = 0; l <= k - strict; l++) body
RECURSIVE RowLoop(_, _, _, _, _, _, _, _)
RowLoop(tag, st, q, cs, val, k, dim, strict) ==
    IF k >= dim \div 2
       THEN st
       ELSE CHOOSE y \in {RowLoop(tag, s, q, cs, val, k + 1, dim, strict) :
                           s \in {ColLoop(tag, st, q, cs, val, k, 0, k - strict)}} : TRUE

\* SetToZeroExcept(qs, ctrl_mask, dim): zero every entry whose row or column
\* is outside the control mask
SetToZeroExcept(st, cs, dim) ==
    [qs  |-> [i \in DOMAIN st.qs |->
                 IF \E r \in 0..(dim - 1) : \E c \in 0..r :
                        /\ IdxMap(r, c) = i
                        /\ ~(InCtrl(r, cs) /\ InCtrl(c, cs))
                    THEN CZero
                    ELSE st.qs[i]],
     bad |-> st.bad]

\* void ApplyZLike(qs, objs, ctrls, val, dim)
ApplyZLike(st, q, cs, val, dim) ==
    IF cs = {}
       THEN RowLoop("ZLike", st, q, cs, val, 0, dim, 0)
       ELSE RowLoop("ZLikeCtrl", st, q, cs, val, 0, dim, 1)

\* void ApplyZ(qs, objs, ctrls, dim)
ApplyZ(st, q, cs, dim) == ApplyZLike(st, q, cs, Zeta(4), dim)

\* void ApplySGate(qs, objs, ctrls, dim)
ApplySGate(st, q, cs, dim) == ApplyZLike(st, q, cs, Zeta(2), dim)

\* ApplySdag passing the value of S
ApplySdagAsS(st, q, cs, dim) == ApplyZLike(st, q, cs, Zeta(2), dim)

\* void ApplySdag(qs, objs, ctrls, dim)
ApplySdag(st, q, cs, dim) == ApplyZLike(st, q, cs, Zeta(6), dim)

\* void ApplyT(qs, objs, ctrls, dim)
ApplyT(st, q, cs, dim) == ApplyZLike(st, q, cs, Zeta(1), dim)

\* void ApplyTdag(qs, objs, ctrls, dim)
ApplyTdag(st, q, cs, dim) == ApplyZLike(st, q, cs, Zeta(7), dim)

\* void ApplyPS(qs, objs, ctrls, val, dim, diff); val is in units of pi/4
ApplyPS(st, q, cs, val, dim, diff) ==
    IF ~diff
       THEN ApplyZLike(st, q, cs, Zeta(val), dim)
       ELSE IF cs = {}
               THEN RowLoop("PSDiff", st, q, cs, Zeta(val + 2), 0, dim, 0)
               ELSE SetToZeroExcept(
                        RowLoop("PSDiffCtrl", st, q, cs, Zeta(val + 2), 0, dim, 0),
                        cs, dim)

(***************************************************************************)
(* DensityMatrixState::ApplyGate for the Z-like gates, on a state of zN    *)
(* qubits.  A client applies one gate, and then possibly its Hermitian     *)
(* conjugate; zPrev is rho before the last call and zPrev2 rho before the  *)
(* call before it.                                                         *)
(***************************************************************************)
\* states of 1 .. MaxQubits qubits
MaxQubits == 3
\* angles are the multiples -MaxAngle .. MaxAngle of pi/4
MaxAngle == 2

Angles == (-MaxAngle)..MaxAngle

\* a value of modulus other than 1, for direct calls of ApplyZLike: 1 + 2i
RawVal == <<1, 0, 2, 0>>

NoOp == [kind |-> "none", name |-> "", daggered |-> FALSE, parameterized |-> FALSE,
         val |-> 0, q |-> 0, cs |-> {}, diff |-> FALSE, pr |-> 0]

\* the Z-like gate records on object qubit q and control qubits cs; val is
\* applied_value_ of a gate without parameter and the coefficient of the
\* parameter "a" of a parameterized one
ZGateRecords(q, cs) ==
    {[kind |-> "gate", name |-> nm, daggered |-> dg, parameterized |-> FALSE,
      val |-> 0, q |-> q, cs |-> cs, diff |-> FALSE, pr |-> 0] :
        nm \in {"S", "T"}, dg \in BOOLEAN}
    \cup
    {[kind |-> "gate", name |-> "Z", daggered |-> FALSE, parameterized |-> FALSE,
      val |-> 0, q |-> q, cs |-> cs, diff |-> FALSE, pr |-> 0]}
    \cup
    {[kind |-> "gate", name |-> "PS", daggered |-> FALSE, parameterized |-> FALSE,
      val |-> a, q |-> q, cs |-> cs, diff |-> FALSE, pr |-> 0] : a \in Angles}
    \cup
    {[kind |-> "gate", name |-> "PS", daggered |-> FALSE, parameterized |-> TRUE,
      val |-> c, q |-> q, cs |-> cs, diff |-> FALSE, pr |-> 0] : c \in {-1, 1}}

\* gate->params_.Combination(pr).const_value of a gate with the one parameter "a"
Combination(g, pr) == g.val * pr

\* index_t ApplyGate(gate, pr, diff): the branches of the Z-like gates
ApplyGateZ(st, g, pr, diff, dim) ==
    CASE g.name = "Z" -> ApplyZ(st, g.q, g.cs, dim)
      [] g.name = "S" -> IF g.daggered
                            THEN ApplySdag(st, g.q, g.cs, dim)
                            ELSE ApplySGate(st, g.q, g.cs, dim)
      [] g.name = "T" -> IF g.daggered
                            THEN ApplyTdag(st, g.q, g.cs, dim)
                            ELSE ApplyT(st, g.q, g.cs, dim)
      [] g.name = "PS" -> IF ~g.parameterized
                             THEN ApplyPS(st, g.q, g.cs, g.val, dim, FALSE)
                             ELSE ApplyPS(st, g.q, g.cs, Combination(g, pr), dim, diff)

\* the packed lower triangle of a matrix with non-zero, pairwise different
\* off-diagonal entries and a real diagonal
GenericRho(dim) ==
    [i \in 0..(PackedLen(dim) - 1) |->
        LET r == PackedRow(i)
            c == i - IdxMap(r, 0)
        IN  IF r = c THEN <<r + 1, 0, 0, 0>> ELSE <<1 + c, 0, r - c, 1>>]

ZInit ==
    /\ zN \in 1..MaxQubits
    /\ zQs = GenericRho(Pow2(zN))
    /\ zPrev = zQs
    /\ zPrev2 = zQs
    /\ zOp = NoOp
    /\ zOp2 = NoOp
    /\ zBad = {}
    /\ zPhase = "fresh"

\* the gate record of the Hermitian conjugate of g: Z is its own, S and T
\* flip daggered_, PS negates its angle (or the coefficient of its parameter)
HermitianGate(g) ==
    CASE g.name = "Z" -> g
      [] g.name \in {"S", "T"} -> [g EXCEPT !.daggered = ~@]
      [] g.name = "PS" -> [g EXCEPT !.val = -@]

\* a client makes one call, or applies a gate and then its Hermitian
\* conjugate under the same binding
ZCallAllowed(g, pr, diff) ==
    \/ zPhase = "fresh"
    \/ /\ zPhase = "one"
       /\ zOp.kind = "gate" /\ g.kind = "gate"
       /\ ~zOp.diff /\ ~diff
       /\ pr = zOp.pr
       /\ [g EXCEPT !.pr = pr] = HermitianGate(zOp)

ZRecord(op, st) ==
    /\ zQs' = st.qs
    /\ zBad' = st.bad
    /\ zPrev' = zQs
    /\ zPrev2' = zPrev
    /\ zOp' = op
    /\ zOp2' = zOp
    /\ zPhase' = IF zPhase = "fresh" THEN "one" ELSE "two"
    /\ UNCHANGED zN
    /\ UNCHANGED notZVars

\* sim.ApplyGate(g, pr, diff); pr is the value the binding gives the parameter
\* "a", which only a parameterized gate reads (0 stands for a binding not read)
ZApplyGate(g, pr, diff) ==
    /\ ZCallAllowed(g, pr, diff)
    /\ g.parameterized <=> pr # 0
    /\ ZRecord([g EXCEPT !.diff = diff, !.pr = pr],
               ApplyGateZ([qs |-> zQs, bad |-> {}], g, pr, diff, Pow2(zN)))

\* qs_policy_t::ApplyZLike(qs, objs, ctrls, val, dim) with a value off the unit circle
ZApplyZLike(q, cs) ==
    /\ ZCallAllowed(NoOp, 0, FALSE)
    /\ ZRecord([NoOp EXCEPT !.kind = "raw", !.q = q, !.cs = cs],
               ApplyZLike([qs |-> zQs, bad |-> {}], q, cs, RawVal, Pow2(zN)))

ZNext ==
    \/ \E q \in 0..(zN - 1) : \E cs \in SUBSET ((0..(zN - 1)) \ {q}) :
          \E g \in ZGateRecords(q, cs) : \E pr \in 0..MaxAngle : \E diff \in BOOLEAN :
              ZApplyGate(g, pr, diff)
    \/ \E q \in 0..(zN - 1) : \E cs \in SUBSET ((0..(zN - 1)) \ {q}) :
          ZApplyZLike(q, cs)

(***************************************************************************)
(* Real numbers of the measurement projector: exact fractions <<n, d>>,    *)
(* d > 0, in lowest terms; <<1, 0>> is the result of a division by zero.   *)
(***************************************************************************)
RECURSIVE GCD(_, _)
GCD(a, b) == IF b = 0 THEN a ELSE GCD(b, a % b)

Abs(x) == IF x < 0 THEN -x ELSE x

RInf == <<1, 0>>

Frac(n, d) ==
    IF d = 0 THEN RInf
    ELSE LET g == GCD(Abs(n), Abs(d))
             sg == IF d < 0 THEN -1 ELSE 1
         IN  <<sg * (n \div g), sg * (d \div g)>>

RZero == <<0, 1>>
ROne == <<1, 1>>
RAdd(a, b) == Frac(a[1] * b[2] + b[1] * a[2], a[2] * b[2])
RSub(a, b) == Frac(a[1] * b[2] - b[1] * a[2], a[2] * b[2])
RMul(a, b) == Frac(a[1] * b[1], a[2] * b[2])
\* 1 / a
RInv(a) == Frac(a[2], a[1])
\* a < b
RLess(a, b) == a[1] * b[2] < b[1] * a[2]

RECURSIVE RSum(_, _)
\* the sum of f over the finite set S
RSum(f, S) ==
    IF S = {} THEN RZero
    ELSE LET x == CHOOSE x \in S : TRUE
         IN  RAdd(f[x], RSum(f, S \ {x}))

(***************************************************************************)
(* The measurement projector                                               *)
(***************************************************************************)
\* DiagonalConditionalCollect(qs, mask, condi, abs, dim) for mask = 1 << q and
\* condi = b << q: the sum of the diagonal entries whose index has bit q = b
DiagonalConditionalCollect(qs, q, b, dim) ==
    RSum([r \in 0..(dim - 1) |-> qs[IdxMap(r, r)]],
         {r \in 0..(dim - 1) : Bit(r, q) = b})

\* ConditionalMul(src, des, mask, condi, succ_coeff, fail_coeff, dim) for
\* mask = 1 << q and condi = b << q: an entry whose row and column both have
\* bit q = b is multiplied by succ_coeff, every other entry by fail_coeff
ConditionalMul(qs, q, b, succ, fail, dim) ==
    [i \in DOMAIN qs |->
        LET r == PackedRow(i)
            c == i - IdxMap(r, 0)
        IN  IF Bit(r, q) = b /\ Bit(c, q) = b
               THEN RMul(qs[i], succ)
               ELSE RMul(qs[i], fail)]

\* the outcome drawn with <= in place of <
CollapseBitLeq(u, one_amp) == IF ~RLess(one_amp, u) THEN 1 ELSE 0

\* static_cast<index_t>(rng_() < one_amp)
CollapseBit(u, one_amp) == IF RLess(u, one_amp) THEN 1 ELSE 0

\* norm_fact = (collapse_mask == 0) ? 1 / (1 - one_amp) : 1 / one_amp
NormFact(b, one_amp) == IF b = 0 THEN RInv(RSub(ROne, one_amp)) ELSE RInv(one_amp)

\* ApplyMeasure(gate) on object qubit q with the draw u of rng_():
\* the new rho, the outcome and the marginal
ApplyMeasure(qs, q, u, dim) ==
    LET one_amp == DiagonalConditionalCollect(qs, q, 1, dim)
        b == CollapseBit(u, one_amp)
    IN  [qs |-> ConditionalMul(qs, q, b, NormFact(b, one_amp), RZero, dim),
         b |-> b, one_amp |-> one_amp]

\* states of 1 .. MaxMeasQubits qubits are measured
MaxMeasQubits == 2
\* the diagonal of the measured state holds multiples of 1 / MeasDen
MeasDen == 2
\* rng_() draws one of 0, 1/RngGrid, ..., (RngGrid - 1)/RngGrid
RngGrid == 4

RngDraws == {Frac(k, RngGrid) : k \in 0..(RngGrid - 1)}

\* the packed triangle of the mixture with weight w[r] / MeasDen on basis state r
MixedRho(w, dim) ==
    [i \in 0..(PackedLen(dim) - 1) |->
        LET r == PackedRow(i)
            c == i - IdxMap(r, 0)
        IN  IF r = c THEN Frac(w[r], MeasDen) ELSE RZero]

\* the packed triangle of |+...+><+...+|: every entry 1 / dim
PlusRho(dim) == [i \in 0..(PackedLen(dim) - 1) |-> Frac(1, dim)]

\* the weight vectors of length k, entries 0 .. MeasDen, that sum to total
RECURSIVE Weights(_, _)
Weights(k, total) ==
    IF k = 0 THEN (IF total = 0 THEN {<<>>} ELSE {})
    ELSE UNION {{<<x>> \o w : w \in Weights(k - 1, total - x)} : x \in 0..total}

\* rho of trace 1 on n qubits
MeasStates(n) ==
    {MixedRho([r \in 0..(Pow2(n) - 1) |-> w[r + 1]], Pow2(n)) : w \in Weights(Pow2(n), MeasDen)}
        \cup {PlusRho(Pow2(n))}

NoMeasure == [q |-> -1, b |-> 0, one_amp |-> RZero, u |-> RZero]

MeasInit ==
    /\ mN \in 1..MaxMeasQubits
    /\ mQs \in MeasStates(mN)
    /\ mLast = NoMeasure
    /\ mPrev = NoMeasure

MeasIdle ==
    /\ mN = 1
    /\ mQs = PlusRho(2)
    /\ mLast = NoMeasure
    /\ mPrev = NoMeasure

\* sim.ApplyMeasure(g) for a measurement gate g on qubit q
Measure(q, u) ==
    LET res == ApplyMeasure(mQs, q, u, Pow2(mN))
    IN  /\ mQs' = res.qs
        /\ mLast' = [q |-> q, b |-> res.b, one_amp |-> res.one_amp, u |-> u]
        /\ mPrev' = [mLast EXCEPT !.u = RZero]
        /\ UNCHANGED mN
        /\ UNCHANGED notMeasVars

MeasNext == \E q \in 0..(mN - 1) : \E u \in RngDraws : Measure(q, u)

(***************************************************************************)
(* State objects and their rho buffers.  A buffer is an address 1 ..       *)
(* MaxBuf of the allocator (0 is nullptr); an address that was freed may   *)
(* be handed out again.  The content of a buffer is a number standing for  *)
(* the matrix it holds; the RNG of an object is the seed it was last       *)
(* seeded with and whether it was drawn from since.                        *)
(***************************************************************************)
\* state objects 1 .. MaxObj
MaxObj == 2
\* buffer addresses 1 .. MaxBuf
MaxBuf == 3
\* the seeds an object is constructed with; the code only stores and copies
\* a seed, so two values tell every case apart
Seeds == {1, 2}
\* the matrices a buffer holds (0 is |0...0><0...0|); the code only copies
\* a matrix here, so two values tell every case apart
Contents == {0, 1}

Objs == 1..MaxObj
Bufs == 1..MaxBuf

DeadObj == [alive |-> FALSE, qs |-> 0, seed |-> 0, rng |-> [seed |-> 0, drawn |-> FALSE]]
NoBuf == [live |-> FALSE, content |-> 0]
NoOwnOp == [op |-> "none", tgt |-> 0, src |-> 0]

OwnIdle ==
    /\ sim = [o \in Objs |-> DeadObj]
    /\ heap = [b \in Bufs |-> NoBuf]
    /\ oLast = NoOwnOp
    /\ oBadFree = FALSE

\* RndEngine(seed)
RndEngine(seed) == [seed |-> seed, drawn |-> FALSE]

\* the addresses the allocator may return on heap h
FreeAddrs(h) == {b \in Bufs : ~h[b].live}

\* qs_policy_t::FreeState(qs) on heap h: nothing for nullptr
FreeState(h, qs) == IF qs = 0 THEN h ELSE [h EXCEPT ![qs] = NoBuf]

\* FreeState of an address that is not allocated
BadFree(h, qs) == qs # 0 /\ ~h[qs].live

\* sim.qs after a move that leaves the source's pointer in place
MovedFromKept(s) == s

\* sim.qs = nullptr
MovedFrom(s) == [s EXCEPT !.qs = 0]

OwnRecord(op, tgt, src) ==
    /\ oLast' = [op |-> op, tgt |-> tgt, src |-> src]
    /\ UNCHANGED notOwnVars

\* DensityMatrixState(n_qubits, seed): qs = InitState(dim)
Construct(o, seed) ==
    /\ ~sim[o].alive
    /\ \E b \in FreeAddrs(heap) :
          /\ heap' = [heap EXCEPT ![b] = [live |-> TRUE, content |-> 0]]
          /\ sim' = [sim EXCEPT ![o] = [alive |-> TRUE, qs |-> b, seed |-> seed,
                                        rng |-> RndEngine(seed)]]
    /\ UNCHANGED oBadFree
    /\ OwnRecord("ctor", 0, 0)

\* DensityMatrixState(qs, n_qubits, seed) on a buffer made for it, as
\* derived_t{ham_matrix, n_qubits, seed} does
Adopt(o, seed, c) ==
    /\ ~sim[o].alive
    /\ \E b \in FreeAddrs(heap) :
          /\ heap' = [heap EXCEPT ![b] = [live |-> TRUE, content |-> c]]
          /\ sim' = [sim EXCEPT ![o] = [alive |-> TRUE, qs |-> b, seed |-> seed,
                                        rng |-> RndEngine(seed)]]
    /\ UNCHANGED oBadFree
    /\ OwnRecord("adopt", 0, 0)

\* DensityMatrixState(const DensityMatrixState& sim)
CopyConstruct(o, s) ==
    /\ ~sim[o].alive /\ sim[s].alive /\ sim[s].qs # 0
    /\ \E b \in FreeAddrs(heap) :
          /\ heap' = [heap EXCEPT ![b] = [live |-> TRUE, content |-> heap[sim[s].qs].content]]
          /\ sim' = [sim EXCEPT ![o] = [alive |-> TRUE, qs |-> b, seed |-> sim[s].seed,
                                        rng |-> RndEngine(sim[s].seed)]]
    /\ UNCHANGED oBadFree
    /\ OwnRecord("copy_ctor", o, s)

\* operator=(const DensityMatrixState& sim), this != &sim
CopyAssign(o, s) ==
    /\ o # s /\ sim[o].alive /\ sim[s].alive /\ sim[s].qs # 0
    /\ oBadFree' = (oBadFree \/ BadFree(heap, sim[o].qs))
    /\ LET h1 == FreeState(heap, sim[o].qs)
       IN  \E b \in FreeAddrs(h1) :
              /\ heap' = [h1 EXCEPT ![b] = [live |-> TRUE,
                                            content |-> heap[sim[s].qs].content]]
              /\ sim' = [sim EXCEPT ![o] = [alive |-> TRUE, qs |-> b, seed |-> sim[s].seed,
                                            rng |-> RndEngine(sim[s].seed)]]
    /\ OwnRecord("copy_assign", o, s)

\* DensityMatrixState(DensityMatrixState&& sim)
MoveConstruct(o, s) ==
    /\ ~sim[o].alive /\ sim[s].alive
    /\ sim' = [sim EXCEPT ![o] = [alive |-> TRUE, qs |-> sim[s].qs, seed |-> sim[s].seed,
                                  rng |-> RndEngine(sim[s].seed)],
                          ![s] = MovedFrom(sim[s])]
    /\ UNCHANGED <<heap, oBadFree>>
    /\ OwnRecord("move_ctor", o, s)

\* operator=(DensityMatrixState&& sim), this != &sim
MoveAssign(o, s) ==
    /\ o # s /\ sim[o].alive /\ sim[s].alive
    /\ oBadFree' = (oBadFree \/ BadFree(heap, sim[o].qs))
    /\ heap' = FreeState(heap, sim[o].qs)
    /\ sim' = [sim EXCEPT ![o] = [alive |-> TRUE, qs |-> sim[s].qs, seed |-> sim[s].seed,
                                  rng |-> RndEngine(sim[s].seed)],
                          ![s] = MovedFrom(sim[s])]
    /\ OwnRecord("move_assign", o, s)

\* a gate applied to the object changes the matrix in its buffer
OwnApplyGate(o, c) ==
    /\ sim[o].alive /\ sim[o].qs # 0
    /\ heap[sim[o].qs].content # c
    /\ heap' = [heap EXCEPT ![sim[o].qs].content = c]
    /\ UNCHANGED <<sim, oBadFree>>
    /\ OwnRecord("gate", 0, 0)

\* rng_() is drawn (ApplyMeasure)
OwnDraw(o) ==
    /\ sim[o].alive
    /\ sim' = [sim EXCEPT ![o].rng.drawn = TRUE]
    /\ UNCHANGED <<heap, oBadFree>>
    /\ OwnRecord("draw", 0, 0)

\* ~DensityMatrixState(): FreeState(qs)
Destroy(o) ==
    /\ sim[o].alive
    /\ oBadFree' = (oBadFree \/ BadFree(heap, sim[o].qs))
    /\ heap' = FreeState(heap, sim[o].qs)
    /\ sim' = [sim EXCEPT ![o] = DeadObj]
    /\ OwnRecord("dtor", 0, 0)

OwnNext ==
    \/ \E o \in Objs : \E seed \in Seeds : Construct(o, seed)
    \/ \E o \in Objs : \E seed \in Seeds : \E c \in Contents : Adopt(o, seed, c)
    \/ \E o, s \in Objs : CopyConstruct(o, s)
    \/ \E o, s \in Objs : CopyAssign(o, s)
    \/ \E o, s \in Objs : MoveConstruct(o, s)
    \/ \E o, s \in Objs : MoveAssign(o, s)
    \/ \E o \in Objs : \E c \in Contents : OwnApplyGate(o, c)
    \/ \E o \in Objs : OwnDraw(o)
    \/ \E o \in Objs : Destroy(o)

(***************************************************************************)
(* The gradient engine.  The numeric kernels it drives (ApplyRX ...,       *)
(* GetExpectation, HamiltonianMatrix, ExpectDiffRX ...) are kept symbolic: *)
(* a state object is the matrix it started from and the gates applied to   *)
(* it since, an expectation value or a derivative readout is the term of   *)
(* its arguments.  Two results are equal when they were computed from the  *)
(* same matrices through the same gates in the same order.                 *)
(***************************************************************************)
\* the gates a circuit is made of.  RX has the parameter "a" and RY the
\* parameter "b", both requiring gradient; RZ has the parameter "a" marked
\* no_grad; U is a parameterized gate ApplyGate and ExpectDiffGate do not
\* implement.
GateKinds == {"X", "RX", "RY", "RZ", "U"}

\* g->name_
GName(g) == g.id

\* the keys of g->params_.data_
GData(g) ==
    CASE g.id = "X" -> {}
      [] g.id = "RX" -> {"a"}
      [] g.id = "RY" -> {"b"}
      [] g.id = "RZ" -> {"a"}
      [] g.id = "U" -> {"a"}

\* g->params_.no_grad_parameters_
GNoGrad(g) == IF g.id = "RZ" THEN {"a"} ELSE {}

\* g->params_.data_.at(it): the dagger of a gate has the coefficient negated
GCoef(g, it) ==
    (IF g.dag THEN -1 ELSE 1) * (IF g.id = "RY" THEN 2 ELSE 1)

\* g->params_.GetRequiresGradParameters(), in the order of iteration
ParamOrder == <<"a", "b">>
GetRequiresGradParameters(g) ==
    SelectSeq(ParamOrder, LAMBDA nm : nm \in GData(g) \ GNoGrad(g))

\* g->params_.data_.size() != 0
HasParameters(g) == Cardinality(GData(g)) # 0

\* g->params_.data_.size() != g->params_.no_grad_parameters_.size()
Differentiable(g) == Cardinality(GData(g)) # Cardinality(GNoGrad(g))

\* the gate names ApplyGate has a branch for
Implemented(g) == GName(g) \in {"X", "RX", "RY", "RZ"}

\* the gate names ExpectDiffGate has a branch for
DiffImplemented(g) == GName(g) \in {"RX", "RY", "RZ"}

\* the copy of the invoking state: derived_t sim_qs = *this
ThisState == [base |-> "rho0", ham |-> -1, ops |-> <<>>]

\* derived_t sim_ham{HamiltonianMatrix(hams[j]->ham_, dim), n_qubits, seed}
HamState(j) == [base |-> "H", ham |-> j, ops |-> <<>>]

\* the gate that undoes g: X undoes itself, a rotation is undone by its dagger
Inverse(g) == IF g.id = "X" THEN g ELSE [g EXCEPT !.dag = ~@]

\* the matrix of state st after ApplyGate(g, pr): a gate applied right after
\* the gate it undoes gives back the matrix before the two
SymApply(st, g) ==
    IF st.ops # <<>> /\ st.ops[Len(st.ops)] = Inverse(g)
       THEN [st EXCEPT !.ops = SubSeq(@, 1, Len(@) - 1)]
       ELSE [st EXCEPT !.ops = Append(@, g)]

\* qs_policy_t::GetExpectation(sim_qs.qs, hams[j]->ham_, dim)
GetExpectation(st, j) == [kind |-> "Tr", ham |-> j, rho |-> st]

\* the value of ExpectDiffGate(dens_matrix, ham_matrix, gate, dim)
ExpectDiffValue(dens, ham, g) == [kind |-> "diff", rho |-> dens, ham |-> ham, gate |-> g]

\* py_qs_datas_t f_and_g(1 + p_map.size(), 0)
ZeroVector(pmap) ==
    [k \in 1..(1 + Cardinality(DOMAIN pmap)) |->
        IF k = 1 THEN [kind |-> "zero", ham |-> -1, rho |-> ThisState] ELSE <<>>]

\* the last position of nm in names, from 0
LastPos(names, nm) ==
    (CHOOSE i \in 1..Len(names) :
        names[i] = nm /\ \A k \in (i + 1)..Len(names) : names[k] # nm) - 1

\* p_map: p_map[enc_name[i]] = i, then p_map[ans_name[i]] = i + enc_name.size()
PMap(enc, ans) ==
    [nm \in Range(enc) \cup Range(ans) |->
        IF nm \in Range(ans) THEN LastPos(ans, nm) + Len(enc) ELSE LastPos(enc, nm)]

\* ApplyCircuit(circ, pr) on the state of machine m (field qs); a gate
\* ApplyGate does not implement throws std::invalid_argument
RECURSIVE ApplyCircuit(_, _, _)
ApplyCircuit(m, circ, i) ==
    IF i > Len(circ) \/ m.err # ""
       THEN m
       ELSE ApplyCircuit(IF Implemented(circ[i])
                            THEN [m EXCEPT !.qs = SymApply(@, circ[i])]
                            ELSE [m EXCEPT !.err = "invalid_argument"],
                         circ, i + 1)

\* for (auto& it : GetRequiresGradParameters()) f[1 + p_map.at(it)] += 2 * Re(gi) * coef
\* p_map.at throws std::out_of_range for a name it does not hold; a write
\* past the end of f is undefined behaviour
RECURSIVE Accumulate(_, _, _, _, _, _)
Accumulate(r, pmap, names, g, gi, sign) ==
    IF names = <<>> \/ r.err # ""
       THEN r
       ELSE LET it == Head(names)
                term == [name |-> it, gi |-> gi, coef |-> sign * GCoef(g, it)]
                r1 == IF it \notin DOMAIN pmap
                         THEN [r EXCEPT !.err = "out_of_range"]
                         ELSE IF 2 + pmap[it] > Len(r.f)
                                 THEN [r EXCEPT !.err = "ub"]
                                 ELSE [r EXCEPT !.f[2 + pmap[it]] = Append(@, term)]
            IN  Accumulate(r1, pmap, Tail(names), g, gi, sign)

\* auto gi = ExpectDiffGate(dens, ham, g, dim), then the accumulation into f
Readout(f, pmap, dens, ham, g, sign) ==
    IF ~DiffImplemented(g)
       THEN [err |-> "invalid_argument", f |-> f]
       ELSE Accumulate([err |-> "", f |-> f], pmap, GetRequiresGradParameters(g), g,
                       ExpectDiffValue(dens, ham, g), sign)

(***************************************************************************)
(* GetExpectationWithReversibleGradOneOne                                  *)
(***************************************************************************)
\* the record of a point of a OneOne walk: ev is "diff" at a call of
\* ExpectDiffGate and "step" at the end of a loop iteration, i the loop
\* index, g the gate looked at, qs and ham the matrices of sim_qs and sim_ham
Event(ev, i, g, m) == [ev |-> ev, i |-> i, g |-> g, qs |-> m.qs, ham |-> m.ham]

\* for (const auto& g : herm_circ) { readout; sim_ham.ApplyGate; sim_qs.ApplyGate }
RECURSIVE RevOneOneWalk(_, _, _, _)
RevOneOneWalk(m, herm, pmap, i) ==
    IF i > Len(herm) \/ m.err # ""
       THEN m
       ELSE LET g == herm[i]
                rd == IF Differentiable(g)
                         THEN Readout(m.f, pmap, m.qs, m.ham, g, -1)
                         ELSE [err |-> "", f |-> m.f]
                m1 == [m EXCEPT !.err = rd.err, !.f = rd.f,
                                !.trace = IF Differentiable(g)
                                             THEN Append(@, Event("diff", i - 1, g, m))
                                             ELSE @]
                m2 == IF m1.err # "" THEN m1
                      ELSE IF ~Implemented(g) THEN [m1 EXCEPT !.err = "invalid_argument"]
                      ELSE [m1 EXCEPT !.ham = SymApply(@, g), !.qs = SymApply(@, g)]
                m3 == IF m2.err # "" THEN m2
                      ELSE [m2 EXCEPT !.trace = Append(@, Event("step", i - 1, g, m2))]
            IN  RevOneOneWalk(m3, herm, pmap, i + 1)

\* GetExpectationWithReversibleGradOneOne(ham j, circ, herm_circ, ..., enc_name, ans_name)
RevOneOne(j, circ, herm, enc, ans) ==
    LET pmap == PMap(enc, ans)
        m0 == ApplyCircuit([err |-> "", qs |-> ThisState, ham |-> HamState(j),
                            f |-> ZeroVector(pmap), trace |-> <<>>], circ, 1)
        m1 == IF m0.err # "" THEN m0
              ELSE [m0 EXCEPT !.f[1] = GetExpectation(m0.qs, j)]
        m2 == RevOneOneWalk(m1, herm, pmap, 1)
    IN  [err |-> m2.err, f |-> IF m2.err = "" THEN m2.f ELSE <<>>, trace |-> m2.trace]

(***************************************************************************)
(* The OneMulti routines: machine m has the fields err, qs (sim_qs), hams  *)
(* (sim_hams of the current chunk, from 1) and f (f_and_g, from 1).        *)
(***************************************************************************)
\* int max_thread = 15
max_thread == 15

\* n_thread clamped to the number of Hamiltonians only
ClampToHams(n_thread, n_hams) == IF n_thread > n_hams THEN n_hams ELSE n_thread

\* n_thread after the two clamps
ClampThreads(n_thread, n_hams) ==
    LET t1 == IF n_thread > max_thread THEN max_thread ELSE n_thread
    IN  IF t1 > n_hams THEN n_hams ELSE t1

\* n_group = n_hams / n_thread, plus one if n_hams % n_thread
NGroup(n_hams, nt) == (n_hams \div nt) + (IF n_hams % nt # 0 THEN 1 ELSE 0)

\* end = (i + 1) * n_thread, cut to n_hams
ChunkEnd(i, nt, n_hams) == IF (i + 1) * nt > n_hams THEN n_hams ELSE (i + 1) * nt

\* for (j = start; j < end; j++) { f_and_g[j][0] = GetExpectation(sim_qs, hams[j]);
\*                                 sim_hams[j - start] = derived_t{ham_matrix, ...} }
ChunkSetup(m, start, end) ==
    [m EXCEPT !.f = [j \in 1..Len(m.f) |->
                        IF start < j /\ j <= end
                           THEN [m.f[j] EXCEPT ![1] = GetExpectation(m.qs, j - 1)]
                           ELSE m.f[j]],
              !.hams = [k \in 1..(end - start) |-> HamState(start + k - 1)]]

\* for (j = start; j < end; j++) { gi = ExpectDiffGate(sim_qs, sim_hams[j - start], g); += }
RECURSIVE ChunkReadouts(_, _, _, _, _, _, _)
ChunkReadouts(m, pmap, g, sign, start, end, j) ==
    IF j >= end \/ m.err # ""
       THEN m
       ELSE LET rd == Readout(m.f[j + 1], pmap, m.qs, m.hams[j - start + 1], g, sign)
            IN  ChunkReadouts([m EXCEPT !.err = rd.err, !.f[j + 1] = rd.f],
                              pmap, g, sign, start, end, j + 1)

\* for (j = start; j < end; j++) sim_hams[j - start].ApplyGate(g, pr)
ChunkApplyHams(m, g) ==
    IF m.err # "" \/ Len(m.hams) = 0 THEN m
    ELSE IF ~Implemented(g) THEN [m EXCEPT !.err = "invalid_argument"]
    ELSE [m EXCEPT !.hams = [k \in 1..Len(m.hams) |-> SymApply(m.hams[k], g)]]

\* sim_qs.ApplyGate(g, pr)
ApplyToQs(m, g) ==
    IF m.err # "" THEN m
    ELSE IF ~Implemented(g) THEN [m EXCEPT !.err = "invalid_argument"]
    ELSE [m EXCEPT !.qs = SymApply(@, g)]

\* the reversible walk of one chunk over herm_circ
RECURSIVE RevChunkWalk(_, _, _, _, _, _)
RevChunkWalk(m, herm, pmap, start, end, i) ==
    IF i > Len(herm) \/ m.err # ""
       THEN m
       ELSE LET g == herm[i]
                m1 == IF Differentiable(g)
                         THEN ChunkReadouts(m, pmap, g, -1, start, end, start)
                         ELSE m
                m2 == ApplyToQs(ChunkApplyHams(m1, g), g)
            IN  RevChunkWalk(m2, herm, pmap, start, end, i + 1)

\* for (int i = 0; i < n_group; i++) of GetExpectationWithReversibleGradOneMulti
RECURSIVE RevChunks(_, _, _, _, _, _, _)
RevChunks(m, herm, pmap, nt, n_hams, n_group, i) ==
    IF i >= n_group \/ m.err # ""
       THEN m
       ELSE LET start == i * nt
                end == ChunkEnd(i, nt, n_hams)
                m1 == ChunkSetup(m, start, end)
            IN  RevChunks(RevChunkWalk(m1, herm, pmap, start, end, 1),
                          herm, pmap, nt, n_hams, n_group, i + 1)

\* the result of a OneMulti machine
MultiResult(m) == [err |-> m.err, f |-> IF m.err = "" THEN m.f ELSE <<>>]

\* GetExpectationWithReversibleGradOneMulti(hams, circ, herm_circ, pr, p_map, n_thread)
\* with n_hams Hamiltonians; n_hams / n_thread with n_thread == 0 is undefined
RevOneMulti(n_hams, circ, herm, pmap, n_thread) ==
    LET nt == ClampThreads(n_thread, n_hams)
        m0 == ApplyCircuit([err |-> "", qs |-> ThisState, hams |-> <<>>,
                            f |-> [j \in 1..n_hams |-> ZeroVector(pmap)]], circ, 1)
    IN  IF m0.err # "" THEN MultiResult(m0)
        ELSE IF nt = 0 THEN [err |-> "ub", f |-> <<>>]
        ELSE MultiResult(RevChunks(m0, herm, pmap, nt, n_hams, NGroup(n_hams, nt), 0))

(***************************************************************************)
(* The noise-mode routines                                                 *)
(***************************************************************************)
\* for (j = 0; j <= n; j++) sim_qs.ApplyGate(circ[j], pr)
RECURSIVE ReEvolve(_, _, _, _)
ReEvolve(m, circ, n, j) ==
    IF j > n \/ m.err # "" THEN m ELSE ReEvolve(ApplyToQs(m, circ[j + 1]), circ, n, j + 1)

\* sim_qs left as the walk evolved it
CopyQSKept(m) == m

\* sim_qs.CopyQS(this->qs)
CopyQSThis(m) == IF m.err # "" THEN m ELSE [m EXCEPT !.qs = ThisState]

\* the walk of one chunk in noise mode: step a looks at circ[n], n = circ.size() - 1 - a
\* in index_t; circ[n] with n outside the circuit is undefined
RECURSIVE NoiseChunkWalk(_, _, _, _, _, _, _)
NoiseChunkWalk(m, circ, herm, pmap, start, end, a) ==
    IF a >= Len(herm) \/ m.err # ""
       THEN m
       ELSE LET n == Len(circ) - 1 - a
            IN  IF n < 0
                   THEN [m EXCEPT !.err = "ub"]
                   ELSE LET g == circ[n + 1]
                            m1 == IF Differentiable(g)
                                     THEN CopyQSThis(
                                              ChunkReadouts(ReEvolve(m, circ, n, 0),
                                                            pmap, g, 1, start, end, start))
                                     ELSE m
                            m2 == ChunkApplyHams(m1, herm[a + 1])
                        IN  NoiseChunkWalk(m2, circ, herm, pmap, start, end, a + 1)

\* for (int i = 0; i < n_group; i++) of GetExpectationWithNoiseGradOneMulti
RECURSIVE NoiseChunks(_, _, _, _, _, _, _, _)
NoiseChunks(m, circ, herm, pmap, nt, n_hams, n_group, i) ==
    IF i >= n_group \/ m.err # ""
       THEN m
       ELSE LET start == i * nt
                end == ChunkEnd(i, nt, n_hams)
                m1 == CopyQSThis(ChunkSetup(m, start, end))
            IN  NoiseChunks(NoiseChunkWalk(m1, circ, herm, pmap, start, end, 0),
                            circ, herm, pmap, nt, n_hams, n_group, i + 1)

\* GetExpectationWithNoiseGradOneMulti(hams, circ, herm_circ, pr, p_map, n_thread)
NoiseOneMulti(n_hams, circ, herm, pmap, n_thread) ==
    LET nt == ClampThreads(n_thread, n_hams)
        m0 == ApplyCircuit([err |-> "", qs |-> ThisState, hams |-> <<>>,
                            f |-> [j \in 1..n_hams |-> ZeroVector(pmap)]], circ, 1)
    IN  IF m0.err # "" THEN MultiResult(m0)
        ELSE IF nt = 0 THEN [err |-> "ub", f |-> <<>>]
        ELSE MultiResult(NoiseChunks(m0, circ, herm, pmap, nt, n_hams,
                                     NGroup(n_hams, nt), 0))

\* the walk of GetExpectationWithNoiseGradOneOne; machine m has the fields
\* err, qs (sim_qs), ham (sim_ham), f and trace
RECURSIVE NoiseOneOneWalk(_, _, _, _, _)
NoiseOneOneWalk(m, circ, herm, pmap, i) ==
    IF i >= Len(herm) \/ m.err # ""
       THEN m
       ELSE LET n == Len(circ) - 1 - i
            IN  IF n < 0
                   THEN [m EXCEPT !.err = "ub"]
                   ELSE LET g == circ[n + 1]
                            me == ReEvolve(m, circ, n, 0)
                            rd == IF me.err # "" THEN [err |-> me.err, f |-> m.f]
                                  ELSE Readout(me.f, pmap, me.qs, me.ham, g, 1)
                            mt == IF me.err # "" THEN me
                                  ELSE [me EXCEPT !.trace = Append(@, Event("diff", i, g, me))]
                            m1 == IF Differentiable(g)
                                     THEN CopyQSThis([mt EXCEPT !.err = rd.err, !.f = rd.f])
                                     ELSE m
                            m2 == IF m1.err # "" THEN m1
                                  ELSE IF ~Implemented(herm[i + 1])
                                          THEN [m1 EXCEPT !.err = "invalid_argument"]
                                          ELSE [m1 EXCEPT !.ham = SymApply(@, herm[i + 1])]
                            m3 == IF m2.err # "" THEN m2
                                  ELSE [m2 EXCEPT !.trace = Append(@, Event("step", i, g, m2))]
                        IN  NoiseOneOneWalk(m3, circ, herm, pmap, i + 1)

\* GetExpectationWithNoiseGradOneOne(ham j, circ, herm_circ, pr, p_map)
NoiseOneOne(j, circ, herm, pmap) ==
    LET m0 == ApplyCircuit([err |-> "", qs |-> ThisState, ham |-> HamState(j),
                            f |-> ZeroVector(pmap), trace |-> <<>>], circ, 1)
        m1 == IF m0.err # "" THEN m0
              ELSE [m0 EXCEPT !.f[1] = GetExpectation(m0.qs, j), !.qs = ThisState]
        m2 == NoiseOneOneWalk(m1, circ, herm, pmap, 0)
    IN  [err |-> m2.err, f |-> IF m2.err = "" THEN m2.f ELSE <<>>, trace |-> m2.trace]

(***************************************************************************)
(* Calls of the gradient routines.  gIn holds the arguments: circ,         *)
(* herm_circ, enc_name, ans_name, the number M of Hamiltonians and         *)
(* mea_threads.  The values of the parameters (enc_data, ans_data) decide  *)
(* no branch and no index of the routines and are left out.                *)
(***************************************************************************)
MaxCircLen == 2
MaxHams == 3
MaxMeaThreads == 2

\* a gate as a circuit holds it
Gates == [id : GateKinds, dag : {FALSE}]

\* the circuits of at most n gates
RECURSIVE Circuits(_)
Circuits(n) ==
    IF n = 0 THEN {<<>>}
    ELSE Circuits(n - 1) \cup
         {Append(c, g) : c \in {d \in Circuits(n - 1) : Len(d) = n - 1}, g \in Gates}

\* the Hermitian conjugate of a circuit: the undoing gates in reverse order
HermOf(circ) == [i \in 1..Len(circ) |-> Inverse(circ[Len(circ) + 1 - i])]

\* the herm_circ a caller passes with circ: its Hermitian conjugate, the
\* conjugate without its last gate, or the conjugate with one more gate
HermCircs(circ) ==
    {HermOf(circ), Append(HermOf(circ), [id |-> "X", dag |-> FALSE])}
        \cup (IF circ = <<>> THEN {} ELSE {SubSeq(HermOf(circ), 1, Len(circ) - 1)})

EncNames == {<<>>, <<"a">>}
AnsNames == {<<>>, <<"b">>, <<"a">>}

NoInput == [circ |-> <<>>, herm |-> <<>>, enc |-> <<>>, ans |-> <<>>, M |-> 0, mea |-> 0]
NoCall == [fn |-> "none", j |-> -1]
NoRet == [err |-> "", f |-> <<>>]

\* the gradient part before any call
GradIdle ==
    /\ gIn = NoInput
    /\ gCall = NoCall
    /\ gRet = NoRet

\* the arguments of a call on one of the circuits circs
InputsOf(circs) ==
    UNION {{[circ |-> c, herm |-> h, enc |-> e, ans |-> a, M |-> m, mea |-> t] :
                h \in HermCircs(c), e \in EncNames, a \in AnsNames,
                m \in 0..MaxHams, t \in 0..MaxMeaThreads} :
           c \in circs}

GradStart ==
    /\ gIn \in InputsOf(Circuits(MaxCircLen))
    /\ gCall = NoCall
    /\ gRet = NoRet

\* a call of GetExpectationWithReversibleGradOneOne on Hamiltonian j
CallRevOneOne(j) ==
    /\ j < gIn.M
    /\ gCall' = [fn |-> "RevOneOne", j |-> j]
    /\ gRet' = RevOneOne(j, gIn.circ, gIn.herm, gIn.enc, gIn.ans)
    /\ UNCHANGED <<gIn, notGradVars>>

\* a call of GetExpectationWithReversibleGradOneMulti
CallRevOneMulti ==
    /\ gCall' = [fn |-> "RevOneMulti", j |-> -1]
    /\ gRet' = RevOneMulti(gIn.M, gIn.circ, gIn.herm, PMap(gIn.enc, gIn.ans), gIn.mea)
    /\ UNCHANGED <<gIn, notGradVars>>

\* a call of GetExpectationWithNoiseGradOneOne on Hamiltonian j
CallNoiseOneOne(j) ==
    /\ j < gIn.M
    /\ gCall' = [fn |-> "NoiseOneOne", j |-> j]
    /\ gRet' = NoiseOneOne(j, gIn.circ, gIn.herm, PMap(gIn.enc, gIn.ans))
    /\ UNCHANGED <<gIn, notGradVars>>

\* a call of GetExpectationWithNoiseGradOneMulti
CallNoiseOneMulti ==
    /\ gCall' = [fn |-> "NoiseOneMulti", j |-> -1]
    /\ gRet' = NoiseOneMulti(gIn.M, gIn.circ, gIn.herm, PMap(gIn.enc, gIn.ans), gIn.mea)
    /\ UNCHANGED <<gIn, notGradVars>>

GradNext ==
    \/ \E j \in 0..(MaxHams - 1) : CallRevOneOne(j)
    \/ CallRevOneMulti
    \/ \E j \in 0..(MaxHams - 1) : CallNoiseOneOne(j)
    \/ CallNoiseOneMulti

\* the arguments of the OneOne routines, which take one Hamiltonian and no
\* thread count
OneOneStart ==
    /\ gIn \in {in \in InputsOf(Circuits(MaxCircLen)) : in.M >= 1 /\ in.mea = 1}
    /\ gCall = NoCall
    /\ gRet = NoRet

OneOneNext ==
    \/ \E j \in 0..(MaxHams - 1) : CallRevOneOne(j)
    \/ \E j \in 0..(MaxHams - 1) : CallNoiseOneOne(j)

(***************************************************************************)
(* The MultiMulti routines: the caller spawns batch_threads workers, each  *)
(* runs OneMulti on the bindings of its slice, the caller joins them.      *)
(***************************************************************************)
MaxPrs == 3
MaxBatchThreads == 3

NoBatch == [mode |-> "none", n_prs |-> 0, batch_threads |-> 0]

\* the MultiMulti part before any call
BatchIdle ==
    /\ bIn = NoBatch
    /\ bPc = "idle"
    /\ bI = 0
    /\ bEnd = 0
    /\ tasks = <<>>
    /\ output = <<>>
    /\ bJoined = 0

\* output[i][j] of n_params + 1 entries {0, 0}
PreSized(n_hams, enc, ans) ==
    [pr |-> -1,
     f |-> [j \in 1..n_hams |->
              [k \in 1..(Len(enc) + Len(ans) + 1) |->
                  IF k = 1 THEN [kind |-> "zero", ham |-> -1, rho |-> ThisState] ELSE <<>>]]]

\* the OneMulti routine of the mode, on the arguments of the call
OneMultiOf(mode) ==
    IF mode = "rev"
       THEN RevOneMulti(gIn.M, gIn.circ, gIn.herm, PMap(gIn.enc, gIn.ans), gIn.mea)
       ELSE NoiseOneMulti(gIn.M, gIn.circ, gIn.herm, PMap(gIn.enc, gIn.ans), gIn.mea)

\* how a failure of OneMulti ends the thread it runs on: an exception on the
\* calling thread unwinds to the caller, an exception leaving the function
\* of a std::thread calls std::terminate
FailureOn(thread, err) ==
    IF err = "ub" THEN "ub"
    ELSE IF thread = "caller" THEN "threw" ELSE "terminated"

\* MultiMulti with n_prs == 1: output[0] = OneMulti(...) on the calling thread
MultiMultiInline(mode) ==
    /\ bPc = "idle"
    /\ LET r == OneMultiOf(mode)
           out == [n \in 1..1 |-> PreSized(gIn.M, gIn.enc, gIn.ans)]
       IN  /\ bIn' = [mode |-> mode, n_prs |-> 1, batch_threads |-> bIn.batch_threads]
           /\ output' = IF r.err = "" THEN [out EXCEPT ![1] = [pr |-> 0, f |-> r.f]] ELSE out
           /\ bPc' = IF r.err = "" THEN "returned" ELSE FailureOn("caller", r.err)
    /\ UNCHANGED <<bI, bEnd, tasks, bJoined, gIn, notBatchVars>>

\* MultiMulti with n_prs != 1, up to the first iteration of the spawning
\* loop; n_prs / batch_threads with batch_threads == 0 is undefined
MultiMultiEnter(mode, n_prs, batch_threads) ==
    /\ bPc = "idle"
    /\ n_prs # 1
    /\ bIn' = [mode |-> mode, n_prs |-> n_prs, batch_threads |-> batch_threads]
    /\ output' = [n \in 1..n_prs |-> PreSized(gIn.M, gIn.enc, gIn.ans)]
    /\ bPc' = IF batch_threads = 0 THEN "ub" ELSE "spawning"
    /\ bI' = 0
    /\ bEnd' = 0
    /\ tasks' = <<>>
    /\ bJoined' = 0
    /\ UNCHANGED <<gIn, notBatchVars>>

\* one iteration of for (i = 0; i < batch_threads; ++i): tasks.emplace_back(task)
Spawn ==
    /\ bPc = "spawning"
    /\ bI < bIn.batch_threads
    /\ LET offset == bIn.n_prs \div bIn.batch_threads
           left == bIn.n_prs % bIn.batch_threads
           start == bEnd
           stop == start + offset + (IF bI < left THEN 1 ELSE 0)
       IN  /\ tasks' = Append(tasks, [start |-> start, end |-> stop, n |-> start,
                                       st |-> "running"])
           /\ bEnd' = stop
    /\ bI' = bI + 1
    /\ bPc' = IF bI + 1 = bIn.batch_threads THEN "joining" ELSE "spawning"
    /\ UNCHANGED <<bIn, output, bJoined, gIn, notBatchVars>>

\* worker w runs one iteration of for (n = start; n < end; n++): output[n] = f_g
WorkerStep(w) ==
    /\ bPc \in {"spawning", "joining"}
    /\ w \in 1..Len(tasks)
    /\ tasks[w].st = "running"
    /\ tasks[w].n < tasks[w].end
    /\ LET r == OneMultiOf(bIn.mode)
           n == tasks[w].n
       IN  IF r.err = ""
              THEN /\ output' = [output EXCEPT ![n + 1] = [pr |-> n, f |-> r.f]]
                   /\ tasks' = [tasks EXCEPT ![w].n = n + 1]
                   /\ bPc' = bPc
              ELSE /\ output' = output
                   /\ tasks' = [tasks EXCEPT ![w].st = "failed"]
                   /\ bPc' = FailureOn("worker", r.err)
    /\ UNCHANGED <<bIn, bI, bEnd, bJoined, gIn, notBatchVars>>

\* t.join() returning for the next task whether or not its function has returned
JoinNoWait ==
    /\ bPc = "joining"
    /\ bJoined < Len(tasks)
    /\ bJoined' = bJoined + 1
    /\ UNCHANGED <<bIn, bPc, bI, bEnd, tasks, output, gIn, notBatchVars>>

\* t.join() returns for the next task once its function has returned
Join ==
    /\ bPc = "joining"
    /\ bJoined < Len(tasks)
    /\ tasks[bJoined + 1].st = "running"
    /\ tasks[bJoined + 1].n = tasks[bJoined + 1].end
    /\ bJoined' = bJoined + 1
    /\ UNCHANGED <<bIn, bPc, bI, bEnd, tasks, output, gIn, notBatchVars>>

\* return output, after the joining loop
Return ==
    /\ bPc = "joining"
    /\ bJoined = Len(tasks)
    /\ bPc' = "returned"
    /\ UNCHANGED <<bIn, bI, bEnd, tasks, output, bJoined, gIn, notBatchVars>>

\* a batch is run on a circuit of at most one gate with its Hermitian
\* conjugate, one or two Hamiltonians and one Hamiltonian per chunk
BatchStart ==
    /\ gIn \in {in \in InputsOf(Circuits(1)) :
                  /\ in.herm = HermOf(in.circ)
                  /\ in.M \in 1..2 /\ in.mea = 1
                  /\ in.ans = <<"b">>}
    /\ gCall = NoCall
    /\ gRet = NoRet
    /\ BatchIdle

BatchNext ==
    \/ \E mode \in {"rev", "noise"} : MultiMultiInline(mode)
    \/ \E mode \in {"rev", "noise"}, n_prs \in 0..MaxPrs, batch_threads \in 0..MaxBatchThreads :
           MultiMultiEnter(mode, n_prs, batch_threads)
    \/ Spawn
    \/ \E w \in 1..MaxBatchThreads : WorkerStep(w)
    \/ Join
    \/ Return

(***************************************************************************)
(* The chunk loop the two OneMulti routines share, followed one iteration  *)
(* at a time for numbers of Hamiltonians and of threads on both sides of   *)
(* max_thread.  cChunks is the list of (start, end) the loop has visited.  *)
(***************************************************************************)
\* hams.size() is 0 .. MaxChunkHams
MaxChunkHams == 17
\* n_thread is 0 .. MaxChunkThreads
MaxChunkThreads == 17

\* the chunk loop before any call
ChunkIdle ==
    /\ cIn = [n_hams |-> 0, n_thread |-> 0]
    /\ cPc = "idle"
    /\ cNt = 0
    /\ cI = 0
    /\ cChunks = <<>>

\* the arguments of a OneMulti call that decide the chunks
ChunkStart ==
    /\ cIn \in [n_hams : 0..MaxChunkHams, n_thread : 0..MaxChunkThreads]
    /\ cPc = "idle"
    /\ cNt = 0
    /\ cI = 0
    /\ cChunks = <<>>

\* the clamps of n_thread and n_group = n_hams / n_thread; the division is
\* undefined for n_thread == 0
ChunkEnter ==
    /\ cPc = "idle"
    /\ cNt' = ClampThreads(cIn.n_thread, cIn.n_hams)
    /\ cPc' = IF cNt' = 0 THEN "ub" ELSE "loop"
    /\ UNCHANGED <<cIn, cI, cChunks>>
    /\ UNCHANGED notChunkVars

\* one iteration of for (int i = 0; i < n_group; i++): start, end and the
\* walk over herm_circ for the Hamiltonians start .. end - 1
ChunkIterate ==
    /\ cPc = "loop"
    /\ cI < NGroup(cIn.n_hams, cNt)
    /\ cChunks' = Append(cChunks, [start |-> cI * cNt,
                                   end |-> ChunkEnd(cI, cNt, cIn.n_hams)])
    /\ cI' = cI + 1
    /\ UNCHANGED <<cIn, cPc, cNt>>
    /\ UNCHANGED notChunkVars

\* return f_and_g, after the last chunk
ChunkReturn ==
    /\ cPc = "loop"
    /\ cI >= NGroup(cIn.n_hams, cNt)
    /\ cPc' = "returned"
    /\ UNCHANGED <<cIn, cNt, cI, cChunks>>
    /\ UNCHANGED notChunkVars

ChunkNext ==
    \/ ChunkEnter
    \/ ChunkIterate
    \/ ChunkReturn

(***************************************************************************)
(* ApplyGate and ApplyChannel as dispatchers: which kernel a gate record   *)
(* reaches.  dLog is the list of the kernels applied to rho, dRet what the *)
(* call returned or threw.  The outcome of ApplyMeasure is left open here  *)
(* (it is followed on rho in the measurement part).                        *)
(***************************************************************************)
\* the names ApplyGate has a branch for: gI, gX, gCNOT, gY, gZ, gH, gS, gT,
\* gSWAP, gISWAP, gRX, gRY, gRZ, gXX, gZZ, gYY, gPS
GateNames ==
    {"I", "X", "CNOT", "Y", "Z", "H", "S", "T", "SWAP", "ISWAP",
     "RX", "RY", "RZ", "XX", "ZZ", "YY", "PS"}

\* the names ApplyChannel has a branch for: cAD, cPD, cPL, hcAD
ChannelNames == {"AD", "PD", "PL", "hAD"}

\* names neither dispatcher knows: a measurement key, a gate of its own
OtherNames == {"q0", "U3"}

\* gate records: name_, is_measure_, is_channel_, daggered_ and whether
\* kraus_operator_set_ is empty
DispGates ==
    [name : GateNames \cup ChannelNames \cup OtherNames,
     is_measure : BOOLEAN, is_channel : BOOLEAN, daggered : BOOLEAN, kraus_empty : BOOLEAN]

NoDispRet == [err |-> "", msg |-> <<>>, ret |-> -1]

\* the dispatchers before any call
DispIdle ==
    /\ dGate = [name |-> "I", is_measure |-> FALSE, is_channel |-> FALSE,
                daggered |-> FALSE, kraus_empty |-> TRUE]
    /\ dCall = "none"
    /\ dRet = NoDispRet
    /\ dLog = <<>>

DispStart ==
    /\ dGate \in DispGates
    /\ dCall = "none"
    /\ dRet = NoDispRet
    /\ dLog = <<>>

\* a channel dispatcher that hands every other name to ApplyKraus
ApplyChannelLenient(g) ==
    CASE g.name = "AD" -> [err |-> "", msg |-> <<>>, kernels |-> <<"ApplyAmplitudeDamping">>]
      [] g.name = "PD" -> [err |-> "", msg |-> <<>>, kernels |-> <<"ApplyPhaseDamping">>]
      [] g.name = "PL" -> [err |-> "", msg |-> <<>>, kernels |-> <<"ApplyPauli">>]
      [] g.name = "hAD" /\ g.kraus_empty ->
            [err |-> "", msg |-> <<>>, kernels |-> <<"ApplyHermitianAmplitudeDamping">>]
      [] OTHER -> [err |-> "", msg |-> <<>>, kernels |-> <<"ApplyKraus">>]

\* ApplyChannel(gate): the kernel of the channel, or std::runtime_error
ApplyChannel(g) ==
    CASE g.name = "AD" -> [err |-> "", msg |-> <<>>, kernels |-> <<"ApplyAmplitudeDamping">>]
      [] g.name = "PD" -> [err |-> "", msg |-> <<>>, kernels |-> <<"ApplyPhaseDamping">>]
      [] g.name = "PL" -> [err |-> "", msg |-> <<>>, kernels |-> <<"ApplyPauli">>]
      [] g.name \notin {"AD", "PD", "PL"} /\ ~g.kraus_empty ->
            [err |-> "", msg |-> <<>>, kernels |-> <<"ApplyKraus">>]
      [] g.name = "hAD" /\ g.kraus_empty ->
            [err |-> "", msg |-> <<>>, kernels |-> <<"ApplyHermitianAmplitudeDamping">>]
      [] OTHER -> [err |-> "runtime_error",
                   msg |-> <<"This noise channel not implemented.">>, kernels |-> <<>>]

\* the kernel of the branch of ApplyGate for an implemented name
KernelOf(g) ==
    CASE g.name = "I" -> <<>>
      [] g.name \in {"X", "CNOT"} -> <<"ApplyX">>
      [] g.name = "S" -> IF g.daggered THEN <<"ApplySdag">> ELSE <<"ApplySGate">>
      [] g.name = "T" -> IF g.daggered THEN <<"ApplyTdag">> ELSE <<"ApplyT">>
      [] OTHER -> <<"Apply" \o g.name>>

\* index_t ApplyGate(gate, pr, diff): the chain of branches; b is what
\* ApplyMeasure returns
ApplyGateDispatch(g, b) ==
    IF g.name \in GateNames
       THEN [err |-> "", msg |-> <<>>, ret |-> 2, kernels |-> KernelOf(g)]
    ELSE IF g.is_measure
       THEN [err |-> "", msg |-> <<>>, ret |-> b, kernels |-> <<"ApplyMeasure">>]
    ELSE IF g.is_channel
       THEN LET c == ApplyChannel(g)
            IN  [err |-> c.err, msg |-> c.msg, ret |-> IF c.err = "" THEN 2 ELSE -1,
                 kernels |-> c.kernels]
    ELSE [err |-> "invalid_argument", msg |-> <<"gate ", g.name, " not implement.">>,
          ret |-> -1, kernels |-> <<>>]

\* a call sim.ApplyGate(gate, pr, diff)
DispApplyGate(b) ==
    /\ dCall = "none"
    /\ LET r == ApplyGateDispatch(dGate, b)
       IN  /\ dRet' = [err |-> r.err, msg |-> r.msg, ret |-> r.ret]
           /\ dLog' = dLog \o r.kernels
    /\ dCall' = "ApplyGate"
    /\ UNCHANGED dGate
    /\ UNCHANGED notDispVars

\* a call sim.ApplyChannel(gate)
DispApplyChannel ==
    /\ dCall = "none"
    /\ LET r == ApplyChannel(dGate)
       IN  /\ dRet' = [err |-> r.err, msg |-> r.msg, ret |-> -1]
           /\ dLog' = dLog \o r.kernels
    /\ dCall' = "ApplyChannel"
    /\ UNCHANGED dGate
    /\ UNCHANGED notDispVars

DispNext ==
    \/ \E b \in {0, 1} : DispApplyGate(b)
    \/ DispApplyChannel

(***************************************************************************)
(* ApplyCircuit and Sampling on a register of one qubit.  rho is the       *)
(* packed triangle of exact fractions of the measurement part; a random    *)
(* engine is its seed and the number of draws taken from it.               *)
(***************************************************************************)
\* circuits of the sampling part hold at most MaxSampLen gates
MaxSampLen == 3
\* Sampling is called with at most MaxShots shots
MaxShots == 2
\* the state that calls is followed until its engine has given MaxSampDraws draws
MaxSampDraws == 2

SampDim == 2

\* RndEngine(seed) with the number of draws taken
SeededEngine(seed) == [seed |-> seed, pos |-> 0]

\* the k-th output of the engine seeded with seed, on the grid 0 .. RngGrid - 1:
\* a fixed function of the seed and the position
EngineOutput(seed, k) == (seed + k * (2 * seed + 1)) % RngGrid

\* rng_(): uniform on [0, 1)
Uniform01(e) == Frac(EngineOutput(e.seed, e.pos), RngGrid)

\* static_cast<unsigned>(rng()) for the distribution on [1, 2^20) of Sampling
ShotSeed(e) == 1 + EngineOutput(e.seed, e.pos)

Advance(e) == [e EXCEPT !.pos = @ + 1]

\* the gates of the circuits: X, the measurements a and b, and a gate
\* ApplyGate has no branch for
SampGates ==
    {[name |-> "X", is_measure |-> FALSE], [name |-> "U3", is_measure |-> FALSE],
     [name |-> "a", is_measure |-> TRUE], [name |-> "b", is_measure |-> TRUE]}

SampCircuits(n) == UNION {[1..k -> SampGates] : k \in 0..n}

\* |0><0|, |1><1| and |+><+|
BasisRho(b) == MixedRho([r \in 0..(SampDim - 1) |-> IF r = b THEN MeasDen ELSE 0], SampDim)

SampStates == {BasisRho(0), BasisRho(1), PlusRho(SampDim)}

\* ApplyX on qubit q: rows and columns are exchanged in pairs
ApplyX(qs, q, dim) ==
    [i \in DOMAIN qs |->
        LET r == PackedRow(i)
            c == i - IdxMap(r, 0)
            fr == IF Bit(r, q) = 1 THEN r - Pow2(q) ELSE r + Pow2(q)
            fc == IF Bit(c, q) = 1 THEN c - Pow2(q) ELSE c + Pow2(q)
        IN  IF fr >= fc THEN qs[IdxMap(fr, fc)] ELSE qs[IdxMap(fc, fr)]]

\* ApplyMeasure and ApplyX on the qubit, tabulated over the states and draws
MeasureOf == [qs \in SampStates |-> [u \in RngDraws |-> ApplyMeasure(qs, 0, u, SampDim)]]

XOf == [qs \in SampStates |-> ApplyX(qs, 0, SampDim)]

\* result[name] = b keeps the outcome that was there
SetResultKeepFirst(result, name, b) ==
    [n \in DOMAIN result \cup {name} |-> IF n \in DOMAIN result THEN result[n] ELSE b]

\* result[name] = b on a std::map
SetResult(result, name, b) ==
    [n \in DOMAIN result \cup {name} |-> IF n = name THEN b ELSE result[n]]

\* res0[name] on a std::map: a name that is not there is inserted with 0
MapAt(result, name) == IF name \in DOMAIN result THEN result[name] ELSE 0

\* one iteration of the loop of ApplyCircuit on the run m = [sim, result, log, err]
ApplyCircuitStep(m, g, i) ==
    IF g.is_measure
       THEN LET r == MeasureOf[m.sim.qs][Uniform01(m.sim.rng)]
            IN  [m EXCEPT !.sim = [qs |-> r.qs, rng |-> Advance(m.sim.rng)],
                          !.result = SetResult(@, g.name, r.b),
                          !.log = Append(@, [fn |-> "ApplyMeasure", i |-> i, diff |-> FALSE,
                                             ret |-> r.b, qs |-> r.qs])]
    ELSE IF g.name = "X"
       THEN LET qs1 == XOf[m.sim.qs]
            IN  [m EXCEPT !.sim.qs = qs1,
                          !.log = Append(@, [fn |-> "ApplyGate", i |-> i, diff |-> FALSE,
                                             ret |-> 2, qs |-> qs1])]
    ELSE [m EXCEPT !.err = "invalid_argument",
                   !.log = Append(@, [fn |-> "ApplyGate", i |-> i, diff |-> FALSE,
                                      ret |-> -1, qs |-> m.sim.qs])]

\* for (auto& g : circ) from gate i on
RECURSIVE ApplyCircuitLoop(_, _, _)
ApplyCircuitLoop(m, circ, i) ==
    IF i > Len(circ) \/ m.err # ""
       THEN m
       ELSE ApplyCircuitLoop(CHOOSE y \in {ApplyCircuitStep(x, circ[i], i) : x \in {m}} : TRUE,
                             circ, i + 1)

\* sim.ApplyCircuit(circ, pr): the state after, the map returned, the calls made
ApplyCircuitOn(st, circ) ==
    ApplyCircuitLoop([sim |-> st, result |-> <<>>, log |-> <<>>, err |-> ""], circ, 1)

\* the run of one shot, tabulated: the engine of a shot is fresh
ShotRuns ==
    [qs \in SampStates |-> [sd \in 1..RngGrid |-> [circ \in SampCircuits(MaxSampLen) |->
        ApplyCircuitOn([qs |-> qs, rng |-> SeededEngine(sd)], circ)]]]

\* the maps from names onto the columns 0 .. size - 1
KeyMaps ==
    {[n \in {"a"} |-> 0],
     [n \in {"a", "b"} |-> IF n = "a" THEN 0 ELSE 1],
     [n \in {"a", "b"} |-> IF n = "a" THEN 1 ELSE 0]}

\* res1 of one shot filled in the order of the names, whatever key_map says
ShotRowByName(res0, key_map) ==
    [j \in 1..Cardinality(DOMAIN key_map) |->
        IF j = 1 THEN MapAt(res0, "a") ELSE MapAt(res0, "b")]

\* res1 of one shot: res1[val] = res0[name] for (name, val) in key_map
ShotRow(res0, key_map) ==
    [j \in 1..Cardinality(DOMAIN key_map) |->
        LET hit == {n \in DOMAIN key_map : key_map[n] = j - 1}
        IN  IF hit = {} THEN 0 ELSE MapAt(res0, CHOOSE n \in hit : TRUE)]

\* the shots i .. shots - 1 of Sampling: eng is the engine the shot seeds are
\* drawn from, r = [res, err, seeds] what was gathered
RECURSIVE SamplingLoop(_, _, _, _, _, _, _)
SamplingLoop(r, eng, qs, circ, shots, key_map, i) ==
    IF i >= shots \/ r.err # ""
       THEN [res |-> r.res, err |-> r.err, seeds |-> r.seeds, eng |-> eng]
       ELSE LET shot == [qs |-> qs, rng |-> SeededEngine(ShotSeed(eng))]
                run == ShotRuns[qs][shot.rng.seed][circ]
                nxt == IF run.err # ""
                          THEN [res |-> <<>>, err |-> run.err,
                                seeds |-> Append(r.seeds, shot.rng.seed)]
                          ELSE [res |-> r.res \o ShotRow(run.result, key_map), err |-> "",
                                seeds |-> Append(r.seeds, shot.rng.seed)]
            IN  SamplingLoop(CHOOSE y \in {nxt} : TRUE, Advance(eng), qs, circ,
                             shots, key_map, i + 1)

\* Sampling that takes the shot seeds from the engine of the state it is called on
SamplingOwnEngine(s, circ, shots, key_map, seed) ==
    SamplingLoop([res |-> <<>>, err |-> "", seeds |-> <<>>], s.rng,
                 s.qs, circ, shots, key_map, 0)

\* Sampling(circ, pr, shots, key_map, seed) on the state s
Sampling(s, circ, shots, key_map, seed) ==
    SamplingLoop([res |-> <<>>, err |-> "", seeds |-> <<>>], SeededEngine(seed),
                 s.qs, circ, shots, key_map, 0)

NoCircCall == [fn |-> "none", pre |-> <<>>, result |-> <<>>, log |-> <<>>, err |-> ""]

NoSampling ==
    [fn |-> "none", qs |-> <<>>, shots |-> 0, key_map |-> <<>>, seed |-> 0,
     res |-> <<>>, err |-> "", seeds |-> <<>>]

\* sCall and sLast hold the call made last: one of them is empty
SampIdle ==
    /\ sSim = [qs |-> PlusRho(SampDim), rng |-> SeededEngine(1)]
    /\ sCirc = <<>>
    /\ sCall = NoCircCall
    /\ sLast = NoSampling

\* a state constructed with seed 1, holding a rho, and a circuit
SampStart ==
    /\ sSim \in [qs : SampStates, rng : {SeededEngine(1)}]
    /\ sCirc \in SampCircuits(MaxSampLen)
    /\ sCall = NoCircCall
    /\ sLast = NoSampling

\* sim.ApplyCircuit(circ, pr) on the state itself
SampApplyCircuit ==
    /\ sSim.rng.pos < MaxSampDraws
    /\ LET run == ApplyCircuitOn(sSim, sCirc)
       IN  /\ sSim' = run.sim
           /\ sCall' = [fn |-> "ApplyCircuit", pre |-> sSim.qs,
                        result |-> IF run.err = "" THEN run.result ELSE <<>>,
                        log |-> run.log, err |-> run.err]
    /\ sLast' = NoSampling
    /\ UNCHANGED sCirc
    /\ UNCHANGED notSampVars

\* sim.Sampling(circ, pr, shots, key_map, seed)
SampSampling(shots, key_map, seed) ==
    /\ LET r == Sampling(sSim, sCirc, shots, key_map, seed)
       IN  sLast' = [fn |-> "Sampling", qs |-> sSim.qs,
                     shots |-> shots, key_map |-> key_map, seed |-> seed,
                     res |-> r.res, err |-> r.err, seeds |-> r.seeds]
    /\ sCall' = NoCircCall
    /\ UNCHANGED <<sSim, sCirc>>
    /\ UNCHANGED notSampVars

SampNext ==
    \/ SampApplyCircuit
    \/ \E shots \in 0..MaxShots : \E key_map \in KeyMaps : \E seed \in Seeds :
          SampSampling(shots, key_map, seed)

(***************************************************************************)
(* The buffers a gradient routine or Sampling touches.  fThis is the state *)
(* the routine is called on, fHeap the rho buffers (address -> live,       *)
(* content), fW the local state objects of each thread of the routine:     *)
(* sim_qs (or the sim of a shot) and sim_ham.  A MultiMulti routine runs   *)
(* one OneMulti body per worker, the other routines run on thread 1.       *)
(***************************************************************************)
\* a MultiMulti routine has up to MaxFrameWorkers workers
MaxFrameWorkers == 2
\* herm_circ has up to MaxFrameGates gates, Sampling up to MaxFrameGates shots
MaxFrameGates == 1

FrameWorkers == 1..MaxFrameWorkers
\* one buffer for the state called on, two for each thread
FrameBufs == 1..(2 * MaxFrameWorkers + 1)

FrameRoutines ==
    {"RevOneOne", "RevOneMulti", "NoiseOneOne", "NoiseOneMulti",
     "RevMultiMulti", "NoiseMultiMulti", "Sampling"}

IsNoise(fn) == fn \in {"NoiseOneOne", "NoiseOneMulti", "NoiseMultiMulti"}

IsMultiMulti(fn) == fn \in {"RevMultiMulti", "NoiseMultiMulti"}

NoThread == [pc |-> "off", qs |-> 0, ham |-> 0, drawn |-> FALSE, left |-> 0]

NoFrameCall == [fn |-> "none", this |-> [qs |-> 0, seed |-> 0, drawn |-> FALSE], content |-> 0]

FrameIdle ==
    /\ fThis = [qs |-> 1, seed |-> 1, drawn |-> FALSE]
    /\ fHeap = [b \in FrameBufs |-> IF b = 1 THEN [live |-> TRUE, content |-> 0] ELSE NoBuf]
    /\ fW = [w \in FrameWorkers |-> NoThread]
    /\ fCall = NoFrameCall

\* a state that holds a rho and whose rng_ may have been drawn from
FrameStart ==
    /\ fThis \in [qs : {1}, seed : Seeds, drawn : BOOLEAN]
    /\ \E c \in Contents :
          fHeap = [b \in FrameBufs |->
                      IF b = fThis.qs THEN [live |-> TRUE, content |-> c] ELSE NoBuf]
    /\ fW = [w \in FrameWorkers |-> NoThread]
    /\ fCall = NoFrameCall

\* the buffers the allocations of thread w return: no two live objects share
\* a buffer, and none is the buffer of the state called on
QsBuf(w) == 2 * w

HamBuf(w) == 2 * w + 1

\* qs_policy_t::CopyQS with source and destination exchanged
CopyQSReversed(h, des, src) == [h EXCEPT ![src].content = h[des].content]

\* qs_policy_t::CopyQS(qs_des, qs_src, dim)
CopyQS(h, des, src) == [h EXCEPT ![des].content = h[src].content]

\* the routine is entered: the threads that will run its body
FrameCall(fn, threads, n) ==
    /\ fCall.fn = "none"
    /\ threads = (IF IsMultiMulti(fn) THEN threads ELSE 1)
    /\ fCall' = [fn |-> fn, this |-> fThis, content |-> fHeap[fThis.qs].content]
    /\ fW' = [w \in FrameWorkers |->
                 IF w <= threads
                    THEN [NoThread EXCEPT !.pc = IF fn = "Sampling"
                                                    THEN (IF n = 0 THEN "done" ELSE "shot")
                                                    ELSE "copy",
                                          !.left = n]
                    ELSE NoThread]
    /\ UNCHANGED <<fThis, fHeap>>
    /\ UNCHANGED notFrameVars

\* derived_t sim_qs = *this: qs = Copy(sim.qs, dim), rnd_eng_ = RndEngine(seed)
FrameCopy(w) ==
    /\ fW[w].pc = "copy"
    /\ \E b \in {QsBuf(w)} :
          /\ fHeap' = [fHeap EXCEPT ![b] = [live |-> TRUE, content |-> fHeap[fThis.qs].content]]
          /\ fW' = [fW EXCEPT ![w].qs = b, ![w].drawn = FALSE, ![w].pc = "circuit"]
    /\ UNCHANGED <<fThis, fCall>>
    /\ UNCHANGED notFrameVars

\* derived_t sim{n_qubits, seed}: qs = InitState(dim); then CopyQS(sim.qs, qs, dim)
FrameShot(w) ==
    /\ fW[w].pc = "shot"
    /\ \E b \in {QsBuf(w)} :
          /\ fHeap' = CopyQS([fHeap EXCEPT ![b] = [live |-> TRUE, content |-> 0]], b, fThis.qs)
          /\ fW' = [fW EXCEPT ![w].qs = b, ![w].drawn = FALSE, ![w].pc = "circuit"]
    /\ UNCHANGED <<fThis, fCall>>
    /\ UNCHANGED notFrameVars

\* sim_qs.ApplyCircuit(circ, pr): the gates leave the matrix c in the buffer
\* of sim_qs, and a measurement gate draws from the rng_ of sim_qs
FrameCircuit(w, c, d) ==
    /\ fW[w].pc = "circuit"
    /\ fHeap' = [fHeap EXCEPT ![fW[w].qs].content = c]
    /\ fW' = [fW EXCEPT ![w].drawn = d,
                        ![w].pc = IF fCall.fn = "Sampling" THEN "shot_end"
                                  ELSE IF IsNoise(fCall.fn) THEN "reset" ELSE "ham"]
    /\ UNCHANGED <<fThis, fCall>>
    /\ UNCHANGED notFrameVars

\* sim_qs.CopyQS(this->qs)
FrameReset(w) ==
    /\ fW[w].pc = "reset"
    /\ fHeap' = CopyQS(fHeap, fW[w].qs, fThis.qs)
    /\ fW' = [fW EXCEPT ![w].pc = "ham"]
    /\ UNCHANGED <<fThis, fCall>>
    /\ UNCHANGED notFrameVars

\* derived_t sim_ham{ham_matrix, n_qubits, seed} on the buffer HamiltonianMatrix made
FrameHam(w, c) ==
    /\ fW[w].pc = "ham"
    /\ \E b \in {HamBuf(w)} :
          /\ fHeap' = [fHeap EXCEPT ![b] = [live |-> TRUE, content |-> c]]
          /\ fW' = [fW EXCEPT ![w].ham = b, ![w].pc = "walk"]
    /\ UNCHANGED <<fThis, fCall>>
    /\ UNCHANGED notFrameVars

\* one gate of herm_circ.  Reversible: sim_ham.ApplyGate(g), sim_qs.ApplyGate(g).
\* Noise: sim_qs.ApplyGate(circ[0..n]), the readout, sim_qs.CopyQS(this->qs),
\* sim_ham.ApplyGate(herm_circ[i])
FrameWalk(w, c, ch) ==
    /\ fW[w].pc = "walk"
    /\ fW[w].left > 0
    /\ LET h1 == [fHeap EXCEPT ![fW[w].qs].content = c]
           h2 == IF IsNoise(fCall.fn) THEN CopyQS(h1, fW[w].qs, fThis.qs) ELSE h1
       IN  fHeap' = [h2 EXCEPT ![fW[w].ham].content = ch]
    /\ fW' = [fW EXCEPT ![w].left = @ - 1]
    /\ UNCHANGED <<fThis, fCall>>
    /\ UNCHANGED notFrameVars

\* return f_and_g: ~sim_ham, ~sim_qs
FrameReturn(w) ==
    /\ fW[w].pc = "walk"
    /\ fW[w].left = 0
    /\ fHeap' = [fHeap EXCEPT ![fW[w].qs] = NoBuf, ![fW[w].ham] = NoBuf]
    /\ fW' = [fW EXCEPT ![w].qs = 0, ![w].ham = 0, ![w].pc = "done"]
    /\ UNCHANGED <<fThis, fCall>>
    /\ UNCHANGED notFrameVars

\* the end of the body of a shot: ~sim, and the next shot
FrameShotEnd(w) ==
    /\ fW[w].pc = "shot_end"
    /\ fHeap' = [fHeap EXCEPT ![fW[w].qs] = NoBuf]
    /\ fW' = [fW EXCEPT ![w].qs = 0, ![w].left = @ - 1,
                        ![w].pc = IF fW[w].left > 1 THEN "shot" ELSE "done"]
    /\ UNCHANGED <<fThis, fCall>>
    /\ UNCHANGED notFrameVars

FrameNext ==
    \/ \E fn \in FrameRoutines : \E threads \in FrameWorkers : \E n \in 0..MaxFrameGates :
          FrameCall(fn, threads, n)
    \/ \E w \in FrameWorkers : FrameCopy(w)
    \/ \E w \in FrameWorkers : FrameShot(w)
    \/ \E w \in FrameWorkers : \E c \in Contents : \E d \in BOOLEAN : FrameCircuit(w, c, d)
    \/ \E w \in FrameWorkers : FrameReset(w)
    \/ \E w \in FrameWorkers : \E c \in Contents : FrameHam(w, c)
    \/ \E w \in FrameWorkers : \E c, ch \in Contents : FrameWalk(w, c, ch)
    \/ \E w \in FrameWorkers : FrameReturn(w)
    \/ \E w \in FrameWorkers : FrameShotEnd(w)

\* the Z-like part before any call, on one qubit
ZIdle ==
    /\ zN = 1
    /\ zQs = GenericRho(2)
    /\ zPrev = zQs
    /\ zPrev2 = zQs
    /\ zOp = NoOp
    /\ zOp2 = NoOp
    /\ zBad = {}
    /\ zPhase = "fresh"

(***************************************************************************)
(* Specifications                                                          *)
(***************************************************************************)
GateInit == GateIdle /\ ZIdle /\ MeasIdle /\ OwnIdle /\ GradIdle /\ BatchIdle /\ ChunkIdle /\ DispIdle /\ SampIdle /\ FrameIdle

SpecGate == GateInit /\ [][GateNext]_vars

ZSpecInit == ZInit /\ GateIdle /\ MeasIdle /\ OwnIdle /\ GradIdle /\ BatchIdle /\ ChunkIdle /\ DispIdle /\ SampIdle /\ FrameIdle

SpecZ == ZSpecInit /\ [][ZNext]_vars

MeasSpecInit == MeasInit /\ GateIdle /\ ZIdle /\ OwnIdle /\ GradIdle /\ BatchIdle /\ ChunkIdle /\ DispIdle /\ SampIdle /\ FrameIdle

SpecMeas == MeasSpecInit /\ [][MeasNext]_vars

OwnInit == OwnIdle /\ GateIdle /\ ZIdle /\ MeasIdle /\ GradIdle /\ BatchIdle /\ ChunkIdle /\ DispIdle /\ SampIdle /\ FrameIdle

SpecOwn == OwnInit /\ [][OwnNext]_vars

GradInit == GradStart /\ BatchIdle /\ GateIdle /\ ZIdle /\ MeasIdle /\ OwnIdle /\ ChunkIdle /\ DispIdle /\ SampIdle /\ FrameIdle

SpecGrad == GradInit /\ [][GradNext]_vars

BatchInit == BatchStart /\ GateIdle /\ ZIdle /\ MeasIdle /\ OwnIdle /\ ChunkIdle /\ DispIdle /\ SampIdle /\ FrameIdle

SpecBatch == BatchInit /\ [][BatchNext]_vars

OneOneInit == OneOneStart /\ BatchIdle /\ GateIdle /\ ZIdle /\ MeasIdle /\ OwnIdle /\ ChunkIdle /\ DispIdle /\ SampIdle /\ FrameIdle

SpecOneOne == OneOneInit /\ [][OneOneNext]_vars

ChunkInit == ChunkStart /\ GateIdle /\ ZIdle /\ MeasIdle /\ OwnIdle /\ GradIdle /\ BatchIdle /\ DispIdle /\ SampIdle /\ FrameIdle

SpecChunk == ChunkInit /\ [][ChunkNext]_vars

DispInit == DispStart /\ GateIdle /\ ZIdle /\ MeasIdle /\ OwnIdle /\ GradIdle /\ BatchIdle /\ ChunkIdle /\ SampIdle /\ FrameIdle

SpecDisp == DispInit /\ [][DispNext]_vars

SampInit == SampStart /\ GateIdle /\ ZIdle /\ MeasIdle /\ OwnIdle /\ GradIdle /\ BatchIdle /\ ChunkIdle /\ DispIdle /\ FrameIdle

SpecSamp == SampInit /\ [][SampNext]_vars

FrameInit == FrameStart /\ GateIdle /\ ZIdle /\ MeasIdle /\ OwnIdle /\ GradIdle /\ BatchIdle /\ ChunkIdle /\ DispIdle /\ SampIdle

SpecFrame == FrameInit /\ [][FrameNext]_vars

(***************************************************************************)
(* Properties                                                              *)
(***************************************************************************)
\* C3: after any sequence of AddObj, AddCtrl and Reset calls, objs has no
\* repeated qubit, ctrls has no repeated qubit, and no qubit is in both objs
\* and ctrls.
C3_NoQubitConflict ==
    /\ NoRepeat(objs)
    /\ NoRepeat(ctrls)
    /\ Range(objs) \cap Range(ctrls) = {}


\* the exceptions a routine can throw to its caller
Exceptions == {"invalid_argument", "out_of_range", "runtime_error"}

\* the result of OneMulti for Hamiltonian j: what OneOne on H_j would return
SameAsOneOne(multi, j, one) ==
    /\ multi.err = one.err
    /\ multi.err = "" => multi.f[j + 1] = one.f

\* C1: for every M >= 1 and mea_threads >= 1, mea_threads < M included, the
\* OneMulti routines give for every Hamiltonian index j the result vector of
\* the OneOne routine run on H_j: entry 0 from the state evolved once through
\* the forward circuit, the gradient entries accumulated against that state.
C1_OneMultiAsOneOne ==
    (gIn.M >= 1 /\ gIn.mea >= 1) =>
        /\ gCall.fn = "RevOneMulti" =>
               \A j \in 0..(gIn.M - 1) :
                   SameAsOneOne(gRet, j, RevOneOne(j, gIn.circ, gIn.herm, gIn.enc, gIn.ans))
        /\ gCall.fn = "NoiseOneMulti" =>
               \A j \in 0..(gIn.M - 1) :
                   SameAsOneOne(gRet, j, NoiseOneOne(j, gIn.circ, gIn.herm,
                                                     PMap(gIn.enc, gIn.ans)))

\* C2: a noise-mode gradient routine called with circ.size() != herm_circ.size()
\* fails: an error reaches the caller and no result vector is returned.
C2_LengthMismatchFails ==
    (gCall.fn \in {"NoiseOneOne", "NoiseOneMulti"} /\ Len(gIn.circ) # Len(gIn.herm)) =>
        (gRet.err \in Exceptions /\ gRet.f = <<>>)

\* a MultiMulti call has ended
BatchEnded == bPc \in {"returned", "threw", "terminated", "ub"}

\* C4: in MultiMulti with N_prs > 1, a failure raised while a worker thread
\* processes its slice is surfaced to the caller of MultiMulti as an error,
\* and no partial output is returned.
C4_WorkerFailureSurfaced ==
    (bIn.n_prs > 1 /\ \E w \in 1..Len(tasks) : tasks[w].st = "failed") =>
        (BatchEnded => bPc = "threw")

\* the result vectors of the last call
ResultVectors ==
    IF gCall.fn \in {"RevOneOne", "NoiseOneOne"} THEN {gRet.f} ELSE Range(gRet.f)

\* the index of a name's gradient: 1 + k for enc_name[k], 1 + |enc_name| + k
\* for ans_name[k]
NameIndexes(nm) ==
    {1 + k : k \in {i \in 0..(Len(gIn.enc) - 1) : gIn.enc[i + 1] = nm}}
        \cup {1 + Len(gIn.enc) + k : k \in {i \in 0..(Len(gIn.ans) - 1) : gIn.ans[i + 1] = nm}}

\* C10: the gradient routines return vectors of length 1 + |enc_name| +
\* |ans_name| with the expectation value at entry 0, the gradient for
\* enc_name[k] at index 1 + k and for ans_name[k] at index 1 + |enc_name| +
\* k; a gate parameter that requires gradient adds to exactly the entry of
\* its own name and entry 0 is never changed by gradient accumulation.
C10_ResultLayout ==
    (gCall.fn # "none" /\ gRet.err = "") =>
        \A v \in ResultVectors :
            /\ Len(v) = 1 + Len(gIn.enc) + Len(gIn.ans)
            /\ v[1].kind \in {"Tr", "zero"}
            /\ \A k \in 2..Len(v) : \A t \in 1..Len(v[k]) :
                   (k - 1) \in NameIndexes(v[k][t].name)

\* the value v a Z-like call multiplies with
ZVal(op) ==
    CASE op.kind = "raw" -> RawVal
      [] op.name = "Z" -> Zeta(4)
      [] op.name = "S" -> IF op.daggered THEN CConj(Zeta(2)) ELSE Zeta(2)
      [] op.name = "T" -> IF op.daggered THEN CConj(Zeta(1)) ELSE Zeta(1)
      [] op.name = "PS" -> IF op.parameterized THEN Zeta(op.val * op.pr) ELSE Zeta(op.val)

\* the last call was a Z-like multiplication (not the derivative kernel of PS)
ZLikeCall(op) ==
    /\ op.kind # "none"
    /\ ~(op.name = "PS" /\ op.parameterized /\ op.diff)

\* f(x) = v if x has the object bit and every control bit set, 1 otherwise
ZFactor(op, x) == IF Bit(x, op.q) = 1 /\ InCtrl(x, op.cs) THEN ZVal(op) ELSE COne

\* every stored entry (r, c) is f(r) * conj(f(c)) times its previous value
ZLikeExact(op) ==
    \A r \in 0..(Pow2(zN) - 1) : \A c \in 0..r :
        zQs[IdxMap(r, c)] =
            CMul(CMul(ZFactor(op, r), CConj(ZFactor(op, c))), zPrev[IdxMap(r, c)])

\* C5: uncontrolled ApplyZLike with value v on object qubit q changes every
\* stored entry rho[r,c] (r >= c) to v^b(r) * conj(v)^b(c) * rho[r,c], each
\* entry multiplied exactly once, the entry (r1, r0) of a diagonal block too.
C5_UncontrolledExact ==
    (ZLikeCall(zOp) /\ zOp.cs = {}) => ZLikeExact(zOp)

\* C6: controlled ApplyZLike with value v changes every stored entry
\* rho[r,c] (r >= c) to f(r) * conj(f(c)) * rho[r,c], f(x) = v if x has the
\* object bit and all control bits set and 1 otherwise.
C6_ControlledExact ==
    (ZLikeCall(zOp) /\ zOp.cs # {}) => ZLikeExact(zOp)

\* gate b is the dagger of gate a on the same qubits, both applied with diff == false
DaggerPair(a, b) ==
    /\ a.kind = "gate" /\ b.kind = "gate"
    /\ a.q = b.q /\ a.cs = b.cs
    /\ a.name = b.name
    /\ ~a.diff /\ ~b.diff
    /\ CASE a.name = "Z" -> TRUE
         [] a.name \in {"S", "T"} -> a.daggered # b.daggered
         [] a.name = "PS" -> /\ a.parameterized = b.parameterized
                             /\ b.val = -a.val /\ a.pr = b.pr

\* C7: applying a Z-like gate and then its dagger to the same object and
\* control qubits leaves every stored entry of rho equal to its value before
\* the pair.
C7_DaggerRoundTrip ==
    (zPhase = "two" /\ DaggerPair(zOp2, zOp)) => zQs = zPrev2

\* C7 witness: a controlled T followed by its dagger on three qubits
C7_Witness ==
    /\ zPhase = "two" /\ DaggerPair(zOp2, zOp)
    /\ zOp.name = "T" /\ zOp.cs # {} /\ zN = 3
    /\ zPrev # zPrev2

\* C8: if ApplyMeasure on qubit q returns b, an immediately following
\* ApplyMeasure on the same qubit returns b again, whatever the RNG draws.
C8_MeasureTwice ==
    (mPrev.q # -1 /\ mLast.q = mPrev.q) => mLast.b = mPrev.b

\* C8 witness: a qubit with marginal 1/2 measured as 1 and measured again
\* with a draw of at least 1/2
C8_Witness ==
    /\ mPrev.q # -1 /\ mLast.q = mPrev.q
    /\ mPrev.one_amp = Frac(1, 2) /\ mPrev.b = 1
    /\ mLast.one_amp = ROne /\ ~RLess(mLast.u, Frac(1, 2))
    /\ mN = 2

\* no two live state objects hold the same non-null rho buffer
NoAliasing ==
    \A a, b \in Objs :
        (a # b /\ sim[a].alive /\ sim[b].alive /\ sim[a].qs # 0) => sim[a].qs # sim[b].qs

\* the target's RNG is freshly seeded from the stored seed of the source
FreshlySeeded(t, s) ==
    /\ sim'[t].seed = sim[s].seed
    /\ sim'[t].rng = RndEngine(sim[s].seed)

\* a copy: a new buffer with equal contents, source unchanged
CopyEffect(t, s) ==
    /\ sim'[t].qs # 0 /\ heap'[sim'[t].qs].live
    /\ sim'[t].qs # sim'[s].qs
    /\ heap'[sim'[t].qs].content = heap[sim[s].qs].content
    /\ sim'[s] = sim[s]
    /\ heap'[sim'[s].qs] = heap[sim[s].qs]
    /\ FreshlySeeded(t, s)

\* a move: the target has the source's buffer, the source none
MoveEffect(t, s) ==
    /\ sim'[t].qs = sim[s].qs
    /\ sim'[s].qs = 0
    /\ sim'[t].qs # 0 => heap'[sim'[t].qs] = heap[sim'[t].qs]
    /\ FreshlySeeded(t, s)

\* an assignment: the buffer the target held is freed, once
AssignFrees(t) ==
    LET old == sim[t].qs
    IN  /\ ~oBadFree'
        /\ old # 0 => (heap[old].live /\ (heap'[old].live => sim'[t].qs = old))

\* what a call on the state objects leaves behind
OwnEffect ==
    /\ NoAliasing'
    /\ ~oBadFree'
    /\ oLast'.op \in {"copy_ctor", "copy_assign"} => CopyEffect(oLast'.tgt, oLast'.src)
    /\ oLast'.op \in {"move_ctor", "move_assign"} => MoveEffect(oLast'.tgt, oLast'.src)
    /\ oLast'.op \in {"copy_assign", "move_assign"} => AssignFrees(oLast'.tgt)

\* C9: across construction, copy construction, copy assignment, move
\* construction and move assignment between distinct state objects, no two
\* live objects hold the same non-null rho buffer; a copy gets a new buffer
\* with equal contents and leaves the source unchanged, a move hands over the
\* source's buffer and leaves the source with a null buffer, an assignment
\* frees the target's previous buffer exactly once, and the target's RNG is
\* freshly seeded from the copied stored seed.
C9_Ownership == [][OwnEffect]_vars

\* C9 witness: a move assignment has handed a buffer from a source that had
\* drawn from its RNG to a target, which is freshly seeded
C9_Witness ==
    /\ oLast.op = "move_assign"
    /\ sim[oLast.src].rng.drawn /\ sim[oLast.src].qs = 0
    /\ ~sim[oLast.tgt].rng.drawn /\ sim[oLast.tgt].qs # 0

\* C17: every call IdxMap(r, c) the Z-like kernels make has r >= c, in
\* ApplyZLike and in ApplyPS without and with diff, uncontrolled and
\* controlled, for every block (k, l) the loops visit.
C17_IdxMapOrdered == zBad = {}

\* the smallest of three numbers
Min3(a, b, c) == IF a <= b /\ a <= c THEN a ELSE IF b <= c THEN b ELSE c

\* the chunks of a finished loop for M Hamiltonians and chunk size cs:
\* ceil(M / cs) consecutive chunks, none larger than cs, every j in one chunk
ChunksCover(M, cs) ==
    /\ Len(cChunks) * cs >= M /\ (Len(cChunks) - 1) * cs < M
    /\ \A i \in 1..Len(cChunks) :
          /\ cChunks[i].end - cChunks[i].start <= cs
          /\ cChunks[i].start = (IF i = 1 THEN 0 ELSE cChunks[i - 1].end)
    /\ \A j \in 0..(M - 1) :
          Cardinality({i \in 1..Len(cChunks) :
                          cChunks[i].start <= j /\ j < cChunks[i].end}) = 1
    /\ \A i \in 1..Len(cChunks) : cChunks[i].end <= M

\* C16: in the OneMulti routines, for M >= 1 Hamiltonians and a requested
\* mea_threads >= 1, the chunk size is min(mea_threads, 15, M), the
\* Hamiltonians are processed in ceil(M / chunk size) consecutive chunks, no
\* chunk holds more than the chunk size, and every index j in [0, M) belongs
\* to exactly one chunk.
C16_Chunks ==
    (cIn.n_hams >= 1 /\ cIn.n_thread >= 1) =>
        /\ cPc # "ub"
        /\ cPc \in {"loop", "returned"} => cNt = Min3(cIn.n_thread, 15, cIn.n_hams)
        /\ cPc = "returned" => ChunksCover(cIn.n_hams, cNt)

\* C16 witness: 17 Hamiltonians and 16 requested threads end in the two
\* chunks [0, 15) and [15, 17)
C16_Witness ==
    /\ cPc = "returned"
    /\ cIn.n_hams = 17 /\ cIn.n_thread = 16
    /\ cChunks = <<[start |-> 0, end |-> 15], [start |-> 15, end |-> 17]>>

\* the bindings worker w has processed so far
Processed(w) == {n \in 0..(bIn.n_prs - 1) : tasks[w].start <= n /\ n < tasks[w].n}

\* the slices of the workers spawned so far are contiguous from 0 and differ
\* in size by at most one
SlicesContiguous ==
    /\ \A w \in 1..Len(tasks) :
          /\ tasks[w].start = (IF w = 1 THEN 0 ELSE tasks[w - 1].end)
          /\ tasks[w].start <= tasks[w].end
    /\ \A v, w \in 1..Len(tasks) :
          (tasks[v].end - tasks[v].start) - (tasks[w].end - tasks[w].start) \in {-1, 0, 1}

\* every binding is in the slice of exactly one of the batch_threads workers
SlicesCover ==
    /\ Len(tasks) = bIn.batch_threads
    /\ \A n \in 0..(bIn.n_prs - 1) :
          Cardinality({w \in 1..Len(tasks) : tasks[w].start <= n /\ n < tasks[w].end}) = 1
    /\ \A w \in 1..Len(tasks) : tasks[w].end <= bIn.n_prs

\* C20: in the MultiMulti routines, for N_prs >= 1 and batch_threads >= 1
\* (batch_threads > N_prs included), every binding index n in [0, N_prs) is
\* processed by exactly one worker, the slices are contiguous, pairwise
\* disjoint and differ in size by at most one, so no two threads write the
\* same output[n]; the routine returns only after every worker has been
\* joined, and with N_prs == 1 no worker thread is created.
C20_Partition ==
    (bIn.mode # "none" /\ bIn.n_prs >= 1 /\ (bIn.n_prs = 1 \/ bIn.batch_threads >= 1)) =>
        /\ bPc # "ub"
        /\ SlicesContiguous
        /\ \A v, w \in 1..Len(tasks) : v # w => Processed(v) \cap Processed(w) = {}
        /\ \A w \in 1..Len(tasks) : \A n \in Processed(w) : output[n + 1].pr = n
        /\ bIn.n_prs = 1 => tasks = <<>>
        /\ (bIn.n_prs # 1 /\ bPc \in {"joining", "returned"}) => SlicesCover
        /\ (bIn.n_prs # 1 /\ bPc = "returned") =>
              /\ bJoined = Len(tasks)
              /\ \A w \in 1..Len(tasks) : tasks[w].st = "running" /\ tasks[w].n = tasks[w].end
              /\ \A n \in 0..(bIn.n_prs - 1) : \E w \in 1..Len(tasks) : n \in Processed(w)

\* C20 witness: two bindings on three workers, returned after three joins,
\* the third worker with an empty slice
C20_Witness ==
    /\ bPc = "returned"
    /\ bIn.n_prs = 2 /\ bIn.batch_threads = 3
    /\ bJoined = 3
    /\ tasks[3].start = tasks[3].end
    /\ \A n \in 1..2 : output[n].pr = n - 1

\* the matrix st stepped through the first k gates of a list
RECURSIVE Stepped(_, _, _)
Stepped(st, gates, k) ==
    IF k = 0 THEN st ELSE SymApply(Stepped(st, gates, k - 1), gates[k])

\* sequence p is the beginning of sequence t
IsPrefix(p, t) == Len(p) <= Len(t) /\ p = SubSeq(t, 1, Len(p))

\* what the readouts recorded in trace tr add to entry k of the result, in
\* order: one term per readout and gradient-requiring name at index k - 1,
\* the derivative value times sign times the coefficient of the name
RECURSIVE TermsAt(_, _, _, _, _)
TermsAt(tr, pmap, k, sign, e) ==
    IF e > Len(tr)
       THEN <<>>
       ELSE LET here == SelectSeq(GetRequiresGradParameters(tr[e].g),
                                  LAMBDA it : it \in DOMAIN pmap /\ 2 + pmap[it] = k)
                terms == [t \in 1..Len(here) |->
                             [name |-> here[t],
                              gi |-> ExpectDiffValue(tr[e].qs, tr[e].ham, tr[e].g),
                              coef |-> sign * GCoef(tr[e].g, here[t])]]
            IN  (IF tr[e].ev = "diff" THEN terms ELSE <<>>)
                    \o TermsAt(tr, pmap, k, sign, e + 1)

\* the gradient entries of result r are the terms of its readouts
GradientFromTrace(r, pmap, sign) ==
    \A k \in 2..Len(r.f) : r.f[k] = TermsAt(r.trace, pmap, k, sign, 1)

\* the reversible walk as the claim describes it, from gate i of herm on: a
\* readout against both sidecars stepped through herm[0..i-1] if the gate
\* has a gradient-requiring parameter, then both sidecars stepped by the gate
RECURSIVE RevVisits(_, _, _, _)
RevVisits(qs0, ham0, herm, i) ==
    IF i >= Len(herm)
       THEN <<>>
       ELSE LET g == herm[i + 1]
                before == [qs |-> Stepped(qs0, herm, i), ham |-> Stepped(ham0, herm, i)]
                after == [qs |-> Stepped(qs0, herm, i + 1), ham |-> Stepped(ham0, herm, i + 1)]
            IN  (IF GetRequiresGradParameters(g) # <<>>
                    THEN <<Event("diff", i, g, before)>> ELSE <<>>)
                    \o <<Event("step", i, g, after)>>
                    \o RevVisits(qs0, ham0, herm, i + 1)

\* C18: in the reversible gradient walk the gates of herm_circ are visited in
\* list order; when herm_circ[i] is visited both sidecars have been stepped
\* through exactly herm_circ[0..i-1]; ExpectDiffGate is read only for gates
\* with a gradient-requiring parameter, before the gate is applied to either
\* sidecar, and adds 2*Re(g')*(-coefficient) for each gradient-requiring
\* name; then the gate is applied to both sidecars.
C18_ReversibleWalk ==
    gCall.fn = "RevOneOne" =>
        LET expected == RevVisits(Stepped(ThisState, gIn.circ, Len(gIn.circ)),
                                  HamState(gCall.j), gIn.herm, 0)
        IN  /\ IsPrefix(gRet.trace, expected)
            /\ gRet.err = "" =>
                  /\ gRet.trace = expected
                  /\ GradientFromTrace(gRet, PMap(gIn.enc, gIn.ans), -1)

\* C18 witness: a walk over the conjugate of [RZ(a, no grad), RY(b)] with one
\* readout, for RY, and a step for each of the two gates
C18_Witness ==
    /\ gCall.fn = "RevOneOne" /\ gRet.err = ""
    /\ gIn.circ = <<[id |-> "RZ", dag |-> FALSE], [id |-> "RY", dag |-> FALSE]>>
    /\ gIn.herm = HermOf(gIn.circ)
    /\ Len(gRet.trace) = 3
    /\ gRet.trace[1].ev = "diff" /\ gRet.trace[1].qs.ops = gIn.circ
    /\ gRet.trace[3].qs.ops = <<>>
    /\ Len(gRet.f) = 2 /\ Len(gRet.f[2]) = 1

\* the noise walk as the claim describes it, from step i on: gate
\* n = L - 1 - i; if it has a gradient-requiring parameter a readout against
\* rho0 evolved through circ[0..n] and the Hamiltonian stepped through
\* herm[0..i-1]; at the end of the step sim_qs is rho0 and the Hamiltonian is
\* stepped by herm[i]
RECURSIVE NoiseVisits(_, _, _, _)
NoiseVisits(ham0, circ, herm, i) ==
    IF i >= Len(herm)
       THEN <<>>
       ELSE LET n == Len(circ) - 1 - i
                g == circ[n + 1]
                before == [qs |-> Stepped(ThisState, circ, n + 1),
                           ham |-> Stepped(ham0, herm, i)]
                after == [qs |-> ThisState, ham |-> Stepped(ham0, herm, i + 1)]
            IN  (IF GetRequiresGradParameters(g) # <<>>
                    THEN <<Event("diff", i, g, before)>> ELSE <<>>)
                    \o <<Event("step", i, g, after)>>
                    \o NoiseVisits(ham0, circ, herm, i + 1)

\* C19: in GetExpectationWithNoiseGradOneOne with circ and herm_circ of equal
\* length L, step i looks at gate n = L-1-i; whenever ExpectDiffGate is
\* called for circ[n], rho_S is rho0 evolved through exactly circ[0..n] and
\* rho_H the Hamiltonian stepped through exactly herm_circ[0..i-1]; the
\* contribution is added with sign +, rho_S is reset to rho0 before the next
\* step, and rho_H is stepped by herm_circ[i] at the end of every step.
C19_NoiseWalk ==
    (gCall.fn = "NoiseOneOne" /\ Len(gIn.circ) = Len(gIn.herm)) =>
        LET expected == NoiseVisits(HamState(gCall.j), gIn.circ, gIn.herm, 0)
        IN  /\ IsPrefix(gRet.trace, expected)
            /\ gRet.err = "" =>
                  /\ gRet.trace = expected
                  /\ GradientFromTrace(gRet, PMap(gIn.enc, gIn.ans), 1)

\* C19 witness: a walk over [RX(a), RY(b)] with a readout in each of its two
\* steps, the second against rho0 evolved through RX alone
C19_Witness ==
    /\ gCall.fn = "NoiseOneOne" /\ gRet.err = ""
    /\ gIn.circ = <<[id |-> "RX", dag |-> FALSE], [id |-> "RY", dag |-> FALSE]>>
    /\ gIn.herm = HermOf(gIn.circ)
    /\ Len(gRet.trace) = 4
    /\ gRet.trace[1].qs.ops = gIn.circ
    /\ gRet.trace[3].ev = "diff" /\ gRet.trace[3].qs.ops = <<gIn.circ[1]>>
    /\ gRet.trace[4].qs = ThisState
    /\ Len(gRet.f) = 3 /\ Len(gRet.f[2]) = 1 /\ Len(gRet.f[3]) = 1

\* C13: ApplyGate throws an error carrying the gate name when the name is
\* none of the implemented ones and the gate is neither a measurement nor a
\* channel; ApplyChannel (called directly or from ApplyGate) throws when the
\* channel is none of cAD, cPD, cPL, hcAD and its Kraus set is empty; in
\* each case no kernel has been applied
UnknownGate(g) == g.name \notin GateNames /\ ~g.is_measure /\ ~g.is_channel

UnknownChannel(g) == g.name \notin ChannelNames /\ g.kraus_empty

C13_UnknownErrors ==
    /\ dCall = "ApplyGate" /\ UnknownGate(dGate)
         => /\ dRet.err = "invalid_argument"
            /\ \E k \in DOMAIN dRet.msg : dRet.msg[k] = dGate.name
            /\ dLog = <<>>
    /\ dCall = "ApplyGate" /\ dGate.name \notin GateNames /\ ~dGate.is_measure
         /\ dGate.is_channel /\ UnknownChannel(dGate)
         => dRet.err = "runtime_error" /\ dLog = <<>>
    /\ dCall = "ApplyChannel" /\ UnknownChannel(dGate)
         => dRet.err = "runtime_error" /\ dLog = <<>>

C13_Witness ==
    /\ dCall = "ApplyChannel"
    /\ dGate.name = "U3" /\ dGate.kraus_empty
    /\ dRet.err = "runtime_error"
    /\ dLog = <<>>

\* C14: ApplyGate on a gate whose is_measure_ is set, whatever its name,
\* applies ApplyMeasure and returns 0 or 1; on every other gate it accepts
\* it returns 2
C14_MeasureDispatch ==
    dCall = "ApplyGate" =>
        /\ dGate.is_measure => dRet.ret \in {0, 1} /\ dLog = <<"ApplyMeasure">>
        /\ ~dGate.is_measure /\ dRet.err = "" => dRet.ret = 2

\* C15: ApplyCircuit applies the gates of circ one at a time in list order,
\* measurement gates through ApplyMeasure and the others through ApplyGate
\* with diff = false, and returns a map whose keys are exactly the names of
\* the measurement gates of circ, each value being 0 or 1 and the outcome of
\* the last measurement gate of that name
MeasuredNames(circ) == {circ[k].name : k \in {j \in 1..Len(circ) : circ[j].is_measure}}

LastMeasure(circ, n) ==
    CHOOSE k \in 1..Len(circ) :
        /\ circ[k].is_measure /\ circ[k].name = n
        /\ \A j \in (k + 1)..Len(circ) : ~(circ[j].is_measure /\ circ[j].name = n)

\* the state a call of the log started from
QsBefore(log, pre, k) == IF k = 1 THEN pre ELSE log[k - 1].qs

CallsInOrder(log, circ, pre) ==
    /\ Len(log) <= Len(circ)
    /\ \A k \in 1..Len(log) :
          /\ log[k].i = k
          /\ log[k].diff = FALSE
          /\ IF circ[k].is_measure
                THEN /\ log[k].fn = "ApplyMeasure"
                     /\ log[k].ret \in {0, 1}
                     /\ \E u \in RngDraws :
                           LET r == ApplyMeasure(QsBefore(log, pre, k), 0, u, SampDim)
                           IN  r.b = log[k].ret /\ r.qs = log[k].qs
                ELSE /\ log[k].fn = "ApplyGate"
                     /\ \/ log[k].ret = 2 /\ log[k].qs = ApplyX(QsBefore(log, pre, k), 0, SampDim)
                        \/ log[k].ret = -1 /\ k = Len(log) /\ log[k].qs = QsBefore(log, pre, k)

C15_ApplyCircuit ==
    sCall.fn = "ApplyCircuit" =>
        /\ CallsInOrder(sCall.log, sCirc, sCall.pre)
        /\ sSim.qs = QsBefore(sCall.log, sCall.pre, Len(sCall.log) + 1)
        /\ sCall.err = "" =>
              /\ Len(sCall.log) = Len(sCirc)
              /\ DOMAIN sCall.result = MeasuredNames(sCirc)
              /\ \A n \in DOMAIN sCall.result :
                    /\ sCall.result[n] \in {0, 1}
                    /\ sCall.result[n] = sCall.log[LastMeasure(sCirc, n)].ret

C15_Witness ==
    /\ sCall.fn = "ApplyCircuit"
    /\ sCall.err = ""
    /\ Len(sCirc) = 3
    /\ sCirc[1].is_measure /\ sCirc[3].is_measure /\ sCirc[1].name = sCirc[3].name
    /\ sCall.log[1].ret # sCall.log[3].ret
    /\ sCall.result[sCirc[3].name] = sCall.log[3].ret

\* C11: Sampling returns shots * |key_map| entries, each 0 or 1, and the
\* entry at s * |key_map| + col is the outcome shot s recorded for the
\* measurement gate called name, for every (name, col) of a key_map that maps
\* its names one-to-one onto the columns
ShotOutcome(qs, shot_seed, circ, n) ==
    LET run == ApplyCircuitOn([qs |-> qs, rng |-> SeededEngine(shot_seed)], circ)
    IN  run.log[LastMeasure(circ, n)].ret

C11_SamplingLayout ==
    sLast.fn = "Sampling" /\ sLast.err = "" =>
        LET K == Cardinality(DOMAIN sLast.key_map)
        IN  /\ Len(sLast.res) = sLast.shots * K
            /\ \A x \in 1..Len(sLast.res) : sLast.res[x] \in {0, 1}
            /\ \A sh \in 0..(sLast.shots - 1) :
                 \A n \in DOMAIN sLast.key_map \cap MeasuredNames(sCirc) :
                    sLast.res[sh * K + sLast.key_map[n] + 1]
                       = ShotOutcome(sLast.qs, sLast.seeds[sh + 1], sCirc, n)

C11_Witness ==
    /\ sLast.fn = "Sampling" /\ sLast.err = ""
    /\ sLast.shots = 2
    /\ DOMAIN sLast.key_map = {"a", "b"} /\ sLast.key_map["a"] = 1
    /\ MeasuredNames(sCirc) = {"a", "b"}
    /\ sLast.res[1] # sLast.res[2]
    /\ sLast.res[1] # sLast.res[3]

\* C12: the seed of shot i is the i-th draw of an engine seeded with the seed
\* argument, and the call returns what a call with the same rho, circ, shots,
\* key_map and seed returns on a freshly constructed state, whatever was
\* drawn from the engine of the state it was made on
C12_SamplingDeterministic ==
    sLast.fn = "Sampling" =>
        /\ \A x \in 1..Len(sLast.seeds) :
              sLast.seeds[x] = ShotSeed([seed |-> sLast.seed, pos |-> x - 1])
        /\ \A sd \in Seeds :
              LET r == Sampling([qs |-> sLast.qs, rng |-> SeededEngine(sd)], sCirc,
                                sLast.shots, sLast.key_map, sLast.seed)
              IN  r.res = sLast.res /\ r.err = sLast.err

C12_Witness ==
    /\ sLast.fn = "Sampling" /\ sLast.err = ""
    /\ sSim.rng.pos > 0
    /\ sLast.shots = 2
    /\ sLast.seeds[1] # sLast.seeds[2]
    /\ \E x, y \in 1..Len(sLast.res) : sLast.res[x] # sLast.res[y]

\* C25: after ApplyPS with diff == true and no control qubits on object
\* qubit q, a stored entry rho[r,c] (r >= c) keeps its value if r and c both
\* have bit q set and is 0 otherwise
PSDiffCall(op) == op.kind = "gate" /\ op.name = "PS" /\ op.parameterized /\ op.diff

C25_PSDiffKeepsLastBlock ==
    (PSDiffCall(zOp) /\ zOp.cs = {}) =>
        \A r \in 0..(Pow2(zN) - 1) : \A c \in 0..r :
            zQs[IdxMap(r, c)] =
                IF Bit(r, zOp.q) = 1 /\ Bit(c, zOp.q) = 1
                   THEN zPrev[IdxMap(r, c)]
                   ELSE CZero

\* C23: in ApplyMeasure the selected outcome has non-zero probability:
\* outcome 1 is selected only if p1 > 0 and outcome 0 only if p1 < 1, so the
\* normalization factor 1 / p1 or 1 / (1 - p1) is never a division by zero
C23_NormFactFinite ==
    mLast.q # -1 =>
        /\ mLast.b = 1 => RLess(RZero, mLast.one_amp)
        /\ mLast.b = 0 => RLess(mLast.one_amp, ROne)
        /\ NormFact(mLast.b, mLast.one_amp) # RInf

\* C23 witness: a qubit that is certainly 0 measured with the draw 0
C23_Witness ==
    /\ mLast.q # -1
    /\ mLast.one_amp = RZero /\ mLast.u = RZero
    /\ mLast.b = 0
    /\ NormFact(mLast.b, mLast.one_amp) = ROne

\* C24: the thread counts used as divisors are never zero: n_thread is >= 1
\* when n_hams / n_thread and n_hams % n_thread are evaluated in the OneMulti
\* routines, and batch_threads is >= 1 when n_prs / batch_threads and
\* n_prs % batch_threads are evaluated in the MultiMulti routines
C24_DivisorsNonZero ==
    /\ cPc # "idle" => cNt >= 1
    /\ bPc # "idle" /\ bIn.n_prs # 1 => bIn.batch_threads >= 1

\* C22: in the noise-mode walks every access circ[n] has 0 <= n < circ.size(),
\* whatever the lengths of circ and herm_circ.  Iteration i of the walk of
\* NoiseGradOneOne reads circ[circ.size() - 1 - i]; it is entered when
\* ApplyCircuit(circ) returned (i = 0) or iteration i - 1 was finished
WalkEntered(i) ==
    IF i = 0
       THEN \A k \in 1..Len(gIn.circ) : Implemented(gIn.circ[k])
       ELSE \E e \in 1..Len(gRet.trace) :
               gRet.trace[e].ev = "step" /\ gRet.trace[e].i = i - 1

C22_NoiseIndexInRange ==
    gCall.fn = "NoiseOneOne" =>
        \A i \in 0..(Len(gIn.herm) - 1) :
            WalkEntered(i) =>
                /\ 0 <= Len(gIn.circ) - 1 - i
                /\ Len(gIn.circ) - 1 - i < Len(gIn.circ)

\* C21: a gradient routine or Sampling leaves the state it is called on
\* unchanged: at every point of the call, and so while other workers read it
\* and at the return, its rho buffer holds the values it held at the call,
\* the buffer is its own, and its RNG has not been drawn from
C21_InvokingStateUnchanged ==
    fCall.fn # "none" =>
        /\ fThis = fCall.this
        /\ fHeap[fThis.qs] = [live |-> TRUE, content |-> fCall.content]
        /\ \A w \in FrameWorkers : fW[w].qs # fThis.qs /\ fW[w].ham # fThis.qs

\* C21 witness: every worker of a noise MultiMulti call has evolved and
\* measured on its own copy and stepped its Hamiltonian, and is about to return
C21_Witness ==
    /\ fCall.fn = "NoiseMultiMulti"
    /\ \A w \in FrameWorkers :
          /\ fW[w].pc = "walk" /\ fW[w].left = 0 /\ fW[w].drawn
          /\ fHeap[fW[w].ham].content # fCall.content
    /\ ~fThis.drawn

====
